---- MODULE Spec2Model ----
(***************************************************************************)
(* tunnel-manager: the Tunnel Runtime (SSHTunnel), its Supervisor          *)
(* (monitorConnection / reconnect), the Manager registry and the REST      *)
(* handlers that drive it, modelled as one state machine.                  *)
(*                                                                         *)
(* Spec     one Runtime with its Start task, its Supervisors and callers   *)
(*          of Stop, at statement granularity.                             *)
(* SpecMgr  the process from main on: RestoreAllTunnels, then REST         *)
(*          requests served one at a time under the handler lock, the      *)
(*          Manager, and the Start tasks of the Runtimes they create.      *)
(* SpecRestart  SpecMgr over the stores a previous process can leave.      *)
(* SpecStop     SpecMgr with the signal goroutine and StopAllTunnels.      *)
(* SpecDb       SpecStop over a database whose calls may fail.             *)
(* SpecLock     SpecStop with the Supervisors of the Runtimes.             *)
(* SpecFwd      the forward pairs of one connected Runtime, with the       *)
(*              fairness of the Go scheduler.                              *)
(***************************************************************************)
EXTENDS Integers, Sequences, FiniteSets, TLC

\* ------------------------------------------------------------------ bounds
MaxRuntimes == 2
MaxTasks == 3
MaxClients == 2
MaxRetry == 2
NumStoppers == 2
MaxHosts == 1
MaxSps == 2
MaxEvents == 3
MaxEventsMgr == 2
MaxEventsStop == 2
MaxFwd == 2
MaxDbFaults == 1

RtIds == 1..MaxRuntimes
TaskIds == RtIds \X (1..MaxTasks)
ClientIds == 1..MaxClients
StopperIds == 1..NumStoppers
HostIds == 1..MaxHosts
SpIds == 1..MaxSps
FwdIds == 1..MaxFwd
Pairs == HostIds \X SpIds

VARIABLES
    rt,         \* the SSHTunnel objects: fields of the struct, by allocation order
    tasks,      \* goroutines running Start or monitorConnection, with their position
    clients,    \* the ssh.Client objects dialed so far and their listeners
    stoppers,   \* activations of SSHTunnel.Stop, with their position
    recs,       \* the tunnels table: (host_id, sp_id) -> row
    doneCloses, \* per Runtime: how many times close(t.done) ran
    deletes,    \* per Runtime: how many times Stop issued its DELETE
    hosts,      \* the hosts table
    sps,        \* the service_ports table
    nextHost,   \* the hosts table's auto-increment
    nextSp,     \* the service_ports table's auto-increment
    registry,   \* Manager.tunnels: key -> Runtime
    hnd,        \* the REST handler holding Handler.rwLock, with its position
    mgr,        \* the last Manager call made and what it returned
    ops,        \* REST requests served so far
    sig,        \* the signal goroutine of main, with its position in StopAllTunnels
    fwd,        \* the forward pairs: one per accepted connection
    dbFaults,   \* failures of database calls the environment may still cause
    budget      \* events the environment may still cause: requests, failures

mgrVars == <<hosts, sps, nextHost, nextSp, registry, hnd, mgr, ops, sig>>
vars == <<rt, tasks, clients, stoppers, recs, doneCloses, deletes,
          hosts, sps, nextHost, nextSp, registry, hnd, mgr, ops, sig, fwd, dbFaults, budget>>

\* ------------------------------------------------------- endpoint strings
\* A string is a sequence of pieces; ":" is a piece of its own, every other
\* piece is free of colons.
Colon == ":"

\* fmt.Sprintf("%s:%d", ip, port)
SprintfAddr(ip, port) == ip \o <<Colon>> \o <<port>>

RECURSIVE LastColon(_, _)
LastColon(s, i) ==
    IF i = 0 THEN 0 ELSE IF s[i] = Colon THEN i ELSE LastColon(s, i - 1)

\* net.ResolveTCPAddr -> net.SplitHostPort: the host is what precedes the last
\* colon; an unbracketed host that itself holds a colon is "too many colons".
ResolveTCPAddr(s) ==
    LET i == LastColon(s, Len(s))
        host == SubSeq(s, 1, i - 1)
    IN  /\ i > 0
        /\ i < Len(s)
        /\ \A k \in 1..Len(host) : host[k] # Colon

\* ------------------------------------------------------------ rows, structs
NoRec == [status |-> "none"]
NoPair == <<0, 0>>

\* models.Tunnel as built by Manager.StartTunnel
NewTunnel(h, s, server, local, remote) ==
    [status |-> "starting", lastError |-> "", retryCount |-> 0,
     server |-> server, local |-> local, remote |-> remote]

FreeRt == [used |-> FALSE, pair |-> NoPair, server |-> <<>>, local |-> <<>>,
           isStopped |-> FALSE, done |-> FALSE, stopMu |-> 0, client |-> 0, tun |-> NoRec]
FreeTask == [used |-> FALSE, r |-> 0, kind |-> "none", pc |-> "none", cl |-> 0,
             snap |-> 0, ret |-> "none"]
FreeClient == [state |-> "unused", r |-> 0, listener |-> "none"]
IdleStopper == [pc |-> "idle", r |-> 0, res |-> "none"]
\* a forward pair: forward's position, the accepted connection (localConn), the
\* dialed connection (remoteConn), the two copy goroutines and the number of
\* results waiting in errc
NoFwd == [pc |-> "none", r |-> 0, localConn |-> "none", remoteConn |-> "none",
          copy |-> <<"none", "none">>, errc |-> 0]

\* NewSSHTunnel
NewSSHTunnel(h, s, server, local, tun) ==
    [used |-> TRUE, pair |-> <<h, s>>, server |-> server, local |-> local,
     isStopped |-> FALSE, done |-> FALSE, stopMu |-> 0, client |-> 0, tun |-> tun]

\* ---------------------------------------------------------------- helpers
\* gorm Save: UPDATE of all fields by primary key, INSERT when no row matched.
DbSave(table, pair, row) == [table EXCEPT ![pair] = row]

\* gorm Delete by (host_id, sp_id)
DbDelete(table, pair) == [table EXCEPT ![pair] = NoRec]

\* whether a database call of the step fails: a failure is an event of the
\* environment, possible while dbFaults and budget last
DbOutcomes == IF dbFaults > 0 /\ budget > 0 THEN {FALSE, TRUE} ELSE {FALSE}

\* client.Close(): the connection and every listener opened on it
CloseClient(cs, c) ==
    IF c = 0 THEN cs
    ELSE [cs EXCEPT ![c].state = "closed",
                    ![c].listener = IF @ = "open" THEN "closed" ELSE @]

FreeTaskIds(r) == {t \in TaskIds : t[1] = r /\ ~tasks[t].used}
FreeClientIds == {c \in ClientIds : clients[c].state = "unused"}
Min(S) == CHOOSE x \in S : \A y \in S : x <= y
FirstFree(r) == <<r, Min({t[2] : t \in FreeTaskIds(r)})>>

\* Where a task goes when establishConnection returns err.
\* Start (lines 281-303): nil -> loop head; "unable to authenticate" -> return;
\* otherwise sleep.  reconnect (93-107) logs and returns into monitorConnection.
AfterEstablish(kind, err) ==
    IF kind = "monitor" THEN "m_select"
    ELSE IF err = "" THEN "s_select"
    ELSE IF err = "auth" THEN "exit"
    ELSE "s_sleep"

\* --------------------------------------------------------- saveTunnelStatus
\* lines 61-66: the stopped check under stopMu, released before the write.
saveTunnelStatus_Check(t) ==
    LET T == tasks[t] IN
    /\ T.used /\ T.pc = "sv_check"
    /\ rt[T.r].stopMu = 0
    /\ tasks' = [tasks EXCEPT ![t].pc = IF rt[T.r].isStopped THEN T.ret ELSE "sv_write",
                              ![t].ret = IF rt[T.r].isStopped THEN "none" ELSE @]
    /\ UNCHANGED <<fwd, dbFaults, budget, mgrVars, rt, clients, stoppers, recs, doneCloses, deletes>>

\* line 68: m.db.Save(tunnel)
saveTunnelStatus_Save(t) ==
    LET T == tasks[t] IN
    /\ T.used /\ T.pc = "sv_write"
    /\ recs' = DbSave(recs, rt[T.r].pair, rt[T.r].tun)
    /\ tasks' = [tasks EXCEPT ![t].pc = T.ret, ![t].ret = "none"]
    /\ UNCHANGED <<fwd, dbFaults, budget, mgrVars, rt, clients, stoppers, doneCloses, deletes>>

\* ------------------------------------------------------------------- Start
\* lines 270-273: select on done with a default branch
Start_Select(t) ==
    LET T == tasks[t] IN
    /\ T.used /\ T.pc = "s_select"
    /\ tasks' = [tasks EXCEPT ![t].pc = IF rt[T.r].done THEN "exit" ELSE "s_check"]
    /\ UNCHANGED <<fwd, dbFaults, budget, mgrVars, rt, clients, stoppers, recs, doneCloses, deletes>>

\* lines 274-279
Start_Check(t) ==
    LET T == tasks[t] IN
    /\ T.used /\ T.pc = "s_check"
    /\ rt[T.r].stopMu = 0
    /\ tasks' = [tasks EXCEPT ![t].pc = IF rt[T.r].isStopped THEN "exit" ELSE "e_dial"]
    /\ UNCHANGED <<fwd, dbFaults, budget, mgrVars, rt, clients, stoppers, recs, doneCloses, deletes>>

\* lines 298-302: the sleep is over; status = reconnecting, RetryCount++
Start_Retry(t) ==
    LET T == tasks[t] IN
    /\ T.used /\ T.pc = "s_sleep"
    /\ rt[T.r].tun.retryCount < MaxRetry
    /\ rt' = [rt EXCEPT ![T.r].tun.status = "reconnecting",
                        ![T.r].tun.retryCount = @ + 1]
    /\ tasks' = [tasks EXCEPT ![t].pc = "sv_check", ![t].ret = "s_select"]
    /\ UNCHANGED <<fwd, dbFaults, budget, mgrVars, clients, stoppers, recs, doneCloses, deletes>>

\* ------------------------------------------------------ establishConnection
\* line 183, ssh.Dial succeeds
establishConnection_DialOk(t) ==
    LET T == tasks[t] IN
    /\ T.used /\ T.pc = "e_dial"
    /\ FreeClientIds # {}
    /\ LET c == Min(FreeClientIds) IN
        /\ clients' = [clients EXCEPT ![c] = [state |-> "open", r |-> T.r, listener |-> "none"]]
        /\ tasks' = [tasks EXCEPT ![t].pc = "e_listen", ![t].cl = c]
    /\ UNCHANGED <<fwd, dbFaults, budget, mgrVars, rt, stoppers, recs, doneCloses, deletes>>

\* lines 184-195, ssh.Dial fails (e = "auth": "unable to authenticate")
establishConnection_DialFail(t, e) ==
    LET T == tasks[t] IN
    /\ T.used /\ T.pc = "e_dial"
    /\ budget > 0
    /\ budget' = budget - 1
    /\ rt' = [rt EXCEPT ![T.r].tun.status = "error", ![T.r].tun.lastError = e]
    /\ tasks' = [tasks EXCEPT ![t].pc = "sv_check", ![t].ret = AfterEstablish(T.kind, e)]
    /\ UNCHANGED <<fwd, dbFaults, mgrVars, clients, stoppers, recs, doneCloses, deletes>>

\* The remote host refuses a second listener on an address one already holds.
PortHeld(r) ==
    \E c \in ClientIds :
        /\ clients[c].listener = "open"
        /\ rt[clients[c].r].server = rt[r].server
        /\ rt[clients[c].r].local = rt[r].local

\* line 197, client.Listen succeeds; line 210 registers the deferred Close
establishConnection_ListenOk(t) ==
    LET T == tasks[t] IN
    /\ T.used /\ T.pc = "e_listen"
    /\ clients[T.cl].state = "open"
    /\ ~PortHeld(T.r)
    /\ clients' = [clients EXCEPT ![T.cl].listener = "open"]
    /\ tasks' = [tasks EXCEPT ![t].pc = "e_store"]
    /\ UNCHANGED <<fwd, dbFaults, budget, mgrVars, rt, stoppers, recs, doneCloses, deletes>>

\* lines 198-209, client.Listen fails: the dialed client is not closed
establishConnection_ListenFail(t) ==
    LET T == tasks[t] IN
    /\ T.used /\ T.pc = "e_listen"
    /\ PortHeld(T.r) \/ budget > 0
    /\ budget' = IF PortHeld(T.r) THEN budget ELSE budget - 1
    /\ rt' = [rt EXCEPT ![T.r].tun.status = "error", ![T.r].tun.lastError = "listen"]
    /\ tasks' = [tasks EXCEPT ![t].pc = "sv_check", ![t].cl = 0,
                              ![t].ret = AfterEstablish(T.kind, "listen")]
    /\ UNCHANGED <<fwd, dbFaults, mgrVars, clients, stoppers, recs, doneCloses, deletes>>

\* lines 214-216: t.client = client
establishConnection_Store(t) ==
    LET T == tasks[t] IN
    /\ T.used /\ T.pc = "e_store"
    /\ rt' = [rt EXCEPT ![T.r].client = T.cl]
    /\ tasks' = [tasks EXCEPT ![t].pc = "e_connected"]
    /\ UNCHANGED <<fwd, dbFaults, budget, mgrVars, clients, stoppers, recs, doneCloses, deletes>>

\* line 218: tunnel.Status = "connected"; the struct is shared with the other
\* tasks of the Runtime and no lock covers its fields
establishConnection_Connected(t) ==
    LET T == tasks[t] IN
    /\ T.used /\ T.pc = "e_connected"
    /\ rt' = [rt EXCEPT ![T.r].tun.status = "connected"]
    /\ tasks' = [tasks EXCEPT ![t].pc = "e_reset"]
    /\ UNCHANGED <<fwd, dbFaults, budget, mgrVars, clients, stoppers, recs, doneCloses, deletes>>

\* lines 219-222: RetryCount = 0, LastError = "", then saveTunnelStatus
establishConnection_Reset(t) ==
    LET T == tasks[t] IN
    /\ T.used /\ T.pc = "e_reset"
    /\ rt' = [rt EXCEPT ![T.r].tun.retryCount = 0, ![T.r].tun.lastError = ""]
    /\ tasks' = [tasks EXCEPT ![t].pc = "sv_check", ![t].ret = "e_spawn"]
    /\ UNCHANGED <<fwd, dbFaults, budget, mgrVars, clients, stoppers, recs, doneCloses, deletes>>

\* line 229: go t.monitorConnection(m, tunnel)
establishConnection_Spawn(t) ==
    LET T == tasks[t] IN
    /\ T.used /\ T.pc = "e_spawn"
    /\ FreeTaskIds(T.r) # {}
    /\ LET n == FirstFree(T.r) IN
        tasks' = [tasks EXCEPT ![t].pc = "e_accept",
                               ![n] = [FreeTask EXCEPT !.used = TRUE, !.r = T.r,
                                                       !.kind = "monitor", !.pc = "m_select"]]
    /\ UNCHANGED <<fwd, dbFaults, budget, mgrVars, rt, clients, stoppers, recs, doneCloses, deletes>>

\* lines 232-250: Accept returns io.EOF once the listener's connection is gone;
\* the deferred listener.Close() runs and the procedure returns nil
establishConnection_AcceptEOF(t) ==
    LET T == tasks[t] IN
    /\ T.used /\ T.pc = "e_accept"
    /\ clients[T.cl].listener = "closed"
    /\ tasks' = [tasks EXCEPT ![t].pc = AfterEstablish(T.kind, ""), ![t].cl = 0]
    /\ UNCHANGED <<fwd, dbFaults, budget, mgrVars, rt, clients, stoppers, recs, doneCloses, deletes>>

\* lines 252-257: Accept fails otherwise; the deferred listener.Close() runs
establishConnection_AcceptError(t) ==
    LET T == tasks[t] IN
    /\ T.used /\ T.pc = "e_accept"
    /\ clients[T.cl].listener = "open"
    /\ budget > 0
    /\ budget' = budget - 1
    /\ clients' = [clients EXCEPT ![T.cl].listener = "closed"]
    /\ tasks' = [tasks EXCEPT ![t].pc = AfterEstablish(T.kind, "accept"), ![t].cl = 0]
    /\ UNCHANGED <<fwd, dbFaults, mgrVars, rt, stoppers, recs, doneCloses, deletes>>

\* -------------------------------------------------------- monitorConnection
\* lines 115-116: case <-t.done
monitorConnection_Done(t) ==
    LET T == tasks[t] IN
    /\ T.used /\ T.pc = "m_select"
    /\ rt[T.r].done
    /\ tasks' = [tasks EXCEPT ![t].pc = "exit"]
    /\ UNCHANGED <<fwd, dbFaults, budget, mgrVars, rt, clients, stoppers, recs, doneCloses, deletes>>

\* lines 117-122: case <-ticker.C, the client is read under clientMu
monitorConnection_Tick(t) ==
    LET T == tasks[t] IN
    /\ T.used /\ T.pc = "m_select"
    /\ rt[T.r].client # 0
    /\ tasks' = [tasks EXCEPT ![t].pc = "m_probe", ![t].snap = rt[T.r].client]
    /\ UNCHANGED <<fwd, dbFaults, budget, mgrVars, rt, clients, stoppers, recs, doneCloses, deletes>>

\* lines 123-134: net.DialTimeout to the server
monitorConnection_Probe(t, ok) ==
    LET T == tasks[t] IN
    /\ T.used /\ T.pc = "m_probe"
    /\ ok \/ budget > 0
    /\ budget' = IF ok THEN budget ELSE budget - 1
    /\ tasks' = [tasks EXCEPT ![t].pc = IF ok THEN "m_keepalive" ELSE "r_check",
                              ![t].snap = IF ok THEN @ ELSE 0]
    /\ UNCHANGED <<fwd, dbFaults, mgrVars, rt, clients, stoppers, recs, doneCloses, deletes>>

\* lines 136-142: keepalive@tunnel on the snapshot; it cannot succeed on a
\* closed client
monitorConnection_Keepalive(t, ok) ==
    LET T == tasks[t] IN
    /\ T.used /\ T.pc = "m_keepalive"
    /\ ok => clients[T.snap].state = "open"
    /\ ok \/ clients[T.snap].state # "open" \/ budget > 0
    /\ budget' = IF ok \/ clients[T.snap].state # "open" THEN budget ELSE budget - 1
    /\ tasks' = [tasks EXCEPT ![t].pc = IF ok THEN "m_select" ELSE "r_check", ![t].snap = 0]
    /\ UNCHANGED <<fwd, dbFaults, mgrVars, rt, clients, stoppers, recs, doneCloses, deletes>>

\* ---------------------------------------------------------------- reconnect
\* lines 75-80
reconnect_Check(t) ==
    LET T == tasks[t] IN
    /\ T.used /\ T.pc = "r_check"
    /\ rt[T.r].stopMu = 0
    /\ tasks' = [tasks EXCEPT ![t].pc = IF rt[T.r].isStopped THEN "m_select" ELSE "r_set"]
    /\ UNCHANGED <<fwd, dbFaults, budget, mgrVars, rt, clients, stoppers, recs, doneCloses, deletes>>

\* lines 82-84
reconnect_Set(t) ==
    LET T == tasks[t] IN
    /\ T.used /\ T.pc = "r_set"
    /\ rt[T.r].tun.retryCount < MaxRetry
    /\ rt' = [rt EXCEPT ![T.r].tun.status = "reconnecting",
                        ![T.r].tun.retryCount = @ + 1]
    /\ tasks' = [tasks EXCEPT ![t].pc = "sv_check", ![t].ret = "r_close"]
    /\ UNCHANGED <<fwd, dbFaults, budget, mgrVars, clients, stoppers, recs, doneCloses, deletes>>

\* lines 86-91, then line 93 enters establishConnection
reconnect_Close(t) ==
    LET T == tasks[t] IN
    /\ T.used /\ T.pc = "r_close"
    /\ clients' = CloseClient(clients, rt[T.r].client)
    /\ rt' = [rt EXCEPT ![T.r].client = 0]
    /\ tasks' = [tasks EXCEPT ![t].pc = "e_dial"]
    /\ UNCHANGED <<fwd, dbFaults, budget, mgrVars, stoppers, recs, doneCloses, deletes>>

\* --------------------------------------------------------------------- Stop
\* Stop without lines 310-313: the body runs whether or not the Runtime is
\* already stopped.
Stop_Lock_Unchecked(c) ==
    LET S == stoppers[c] IN
    /\ S.pc = "call"
    /\ rt[S.r].stopMu = 0
    /\ stoppers' = [stoppers EXCEPT ![c].pc = "closeDone"]
    /\ rt' = [rt EXCEPT ![S.r].stopMu = c]
    /\ UNCHANGED <<fwd, dbFaults, budget, mgrVars, tasks, clients, recs, doneCloses, deletes>>

\* lines 309-313
Stop_Lock(c) ==
    LET S == stoppers[c] IN
    /\ S.pc = "call"
    /\ rt[S.r].stopMu = 0
    /\ IF rt[S.r].isStopped
       THEN /\ stoppers' = [stoppers EXCEPT ![c].pc = "ret", ![c].res = "ok"]
            /\ rt' = rt
       ELSE /\ stoppers' = [stoppers EXCEPT ![c].pc = "closeDone"]
            /\ rt' = [rt EXCEPT ![S.r].stopMu = c]
    /\ UNCHANGED <<fwd, dbFaults, budget, mgrVars, tasks, clients, recs, doneCloses, deletes>>

\* line 320
Stop_CloseDone(c) ==
    LET S == stoppers[c] IN
    /\ S.pc = "closeDone"
    /\ rt' = [rt EXCEPT ![S.r].done = TRUE]
    /\ doneCloses' = [doneCloses EXCEPT ![S.r] = @ + 1]
    /\ stoppers' = [stoppers EXCEPT ![c].pc = "closeClient"]
    /\ UNCHANGED <<fwd, dbFaults, budget, mgrVars, tasks, clients, recs, deletes>>

\* lines 322-327
Stop_CloseClient(c) ==
    LET S == stoppers[c] IN
    /\ S.pc = "closeClient"
    /\ clients' = CloseClient(clients, rt[S.r].client)
    /\ rt' = [rt EXCEPT ![S.r].client = 0]
    /\ stoppers' = [stoppers EXCEPT ![c].pc = "delete"]
    /\ UNCHANGED <<fwd, dbFaults, budget, mgrVars, tasks, recs, doneCloses, deletes>>

\* lines 329-333
Stop_Delete(c) ==
    LET S == stoppers[c] IN
    /\ S.pc = "delete"
    /\ deletes' = [deletes EXCEPT ![S.r] = @ + 1]
    /\ \E dbErr \in DbOutcomes :
          IF dbErr
          THEN /\ stoppers' = [stoppers EXCEPT ![c].pc = "unlock", ![c].res = "dberr"]
               /\ dbFaults' = dbFaults - 1
               /\ budget' = budget - 1
               /\ UNCHANGED recs
          ELSE /\ stoppers' = [stoppers EXCEPT ![c].pc = "unlock", ![c].res = "ok"]
               /\ recs' = DbDelete(recs, rt[S.r].pair)
               /\ UNCHANGED <<dbFaults, budget>>
    /\ UNCHANGED <<fwd, mgrVars, rt, tasks, clients, doneCloses>>

\* Stop whose deferred function sets isStopped and leaves stopMu locked.
Stop_Return_NoUnlock(c) ==
    LET S == stoppers[c] IN
    /\ S.pc = "unlock"
    /\ rt' = [rt EXCEPT ![S.r].isStopped = TRUE]
    /\ stoppers' = [stoppers EXCEPT ![c].pc = "ret"]
    /\ UNCHANGED <<fwd, dbFaults, budget, mgrVars, tasks, clients, recs, doneCloses, deletes>>

\* lines 315-318, the deferred function, then the return
Stop_Return(c) ==
    LET S == stoppers[c] IN
    /\ S.pc = "unlock"
    /\ rt' = [rt EXCEPT ![S.r].isStopped = TRUE, ![S.r].stopMu = 0]
    /\ stoppers' = [stoppers EXCEPT ![c].pc = "ret"]
    /\ UNCHANGED <<fwd, dbFaults, budget, mgrVars, tasks, clients, recs, doneCloses, deletes>>

\* A caller enters t.Stop(m) on Runtime r.
CallStop(c, r) ==
    /\ stoppers[c].pc = "idle"
    /\ rt[r].used
    /\ stoppers' = [stoppers EXCEPT ![c] = [pc |-> "call", r |-> r, res |-> "none"]]
    /\ UNCHANGED <<fwd, dbFaults, budget, mgrVars, rt, tasks, clients, recs, doneCloses, deletes>>

\* ================================================================= forward
FreeFwdIds == {f \in FwdIds : fwd[f].pc = "none"}

fwdFrame == <<dbFaults, budget, mgrVars, rt, tasks, clients, stoppers, recs, doneCloses, deletes>>

\* establishConnection lines 232, 259: Accept returns a connection and the
\* accept loop runs go t.forward(conn)
establishConnection_Accept(t) ==
    LET T == tasks[t] IN
    /\ T.used /\ T.pc = "e_accept"
    /\ clients[T.cl].state = "open" /\ clients[T.cl].listener = "open"
    /\ FreeFwdIds # {}
    /\ fwd' = [fwd EXCEPT ![Min(FreeFwdIds)] =
                  [NoFwd EXCEPT !.pc = "dial", !.r = T.r, !.localConn = "open"]]
    /\ UNCHANGED fwdFrame

\* lines 153-161: net.Dial to the remote service fails; forward returns
forward_DialFail(f) ==
    /\ fwd[f].pc = "dial"
    /\ fwd' = [fwd EXCEPT ![f].pc = "closeLocal"]
    /\ UNCHANGED fwdFrame

\* lines 153, 162-174: the dial succeeds, errc is made with room for two
\* results and the two copy goroutines are started
forward_DialOk(f) ==
    /\ fwd[f].pc = "dial"
    /\ fwd' = [fwd EXCEPT ![f].pc = "recv", ![f].remoteConn = "open",
                          ![f].copy = <<"copy", "copy">>]
    /\ UNCHANGED fwdFrame

\* lines 168, 172: io.Copy returns because its source ended or failed while
\* both connections are open
copy_End(f, i) ==
    /\ fwd[f].copy[i] = "copy"
    /\ fwd[f].localConn = "open" /\ fwd[f].remoteConn = "open"
    /\ fwd' = [fwd EXCEPT ![f].copy[i] = "send"]
    /\ UNCHANGED fwdFrame

\* lines 168, 172: io.Copy returns because one of its connections was closed
copy_Closed(f, i) ==
    /\ fwd[f].copy[i] = "copy"
    /\ fwd[f].localConn = "closed" \/ fwd[f].remoteConn = "closed"
    /\ fwd' = [fwd EXCEPT ![f].copy[i] = "send"]
    /\ UNCHANGED fwdFrame

\* errc <- err on a channel without buffer: the send waits for forward's receive
copy_Send_Unbuffered(f, i) ==
    /\ fwd[f].copy[i] = "send"
    /\ fwd[f].pc = "recv"
    /\ fwd' = [fwd EXCEPT ![f].copy[i] = "done", ![f].pc = "closeRemote"]
    /\ UNCHANGED fwdFrame

\* lines 169, 173: errc <- err; errc was made by make(chan error, 2)
copy_Send(f, i) ==
    /\ fwd[f].copy[i] = "send"
    /\ fwd[f].errc < 2
    /\ fwd' = [fwd EXCEPT ![f].copy[i] = "done", ![f].errc = @ + 1]
    /\ UNCHANGED fwdFrame

\* lines 176-179: err = <-errc
forward_Recv(f) ==
    /\ fwd[f].pc = "recv"
    /\ fwd[f].errc > 0
    /\ fwd' = [fwd EXCEPT ![f].pc = "closeRemote", ![f].errc = @ - 1]
    /\ UNCHANGED fwdFrame

\* lines 162-164: the deferred remoteConn.Close()
forward_CloseRemote(f) ==
    /\ fwd[f].pc = "closeRemote"
    /\ fwd' = [fwd EXCEPT ![f].pc = "closeLocal", ![f].remoteConn = "closed"]
    /\ UNCHANGED fwdFrame

\* lines 149-151: the deferred localConn.Close(); forward has returned
forward_CloseLocal(f) ==
    /\ fwd[f].pc = "closeLocal"
    /\ fwd' = [fwd EXCEPT ![f].pc = "done", ![f].localConn = "closed"]
    /\ UNCHANGED fwdFrame

ForwardStep(f) ==
    \/ forward_DialFail(f)
    \/ forward_DialOk(f)
    \/ \E i \in 1..2 : copy_End(f, i)
    \/ \E i \in 1..2 : copy_Closed(f, i)
    \/ \E i \in 1..2 : copy_Send(f, i)
    \/ forward_Recv(f)
    \/ forward_CloseRemote(f)
    \/ forward_CloseLocal(f)

\* =================================================================== store
NoHost == [id |-> 0, ip |-> <<>>, port |-> "", user |-> "", password |-> "",
           enabled |-> FALSE]
NoSp == [id |-> 0, serviceIP |-> <<>>, servicePort |-> "", localPort |-> ""]

Ip1 == <<"10.0.0.1">>
Ip2 == <<"10.0.0.2">>
Ip6 == <<Colon, Colon, "1">>
IPs == {Ip1, Ip2, Ip6}
Ports == {"22"}
Users == {"u"}
Passwords == {"p"}
ServiceIPs == {<<"192.168.1.10">>}
ServicePorts == {"80", "81"}
LocalPorts == {"8080"}

LiveHosts == {i \in HostIds : hosts[i].id # 0}
LiveSps == {i \in SpIds : sps[i].id # 0}

\* rows in primary-key order, as Find returns them
RECURSIVE Ascending(_)
Ascending(S) == IF S = {} THEN <<>> ELSE <<Min(S)>> \o Ascending(S \ {Min(S)})

\* main lines 214-221: the goroutine blocked in <-sigChan
\* unlocks counts the m.mu.Unlock() calls StopAllTunnels has made
SigWait == [pc |-> "wait", outer |-> <<>>, sps |-> <<>>, list |-> <<>>, unlocks |-> 0]

NoCall == [op |-> "none", pair |-> NoPair, res |-> "none"]
IdleHnd == [op |-> "idle", pc |-> "idle", host |-> NoHost, sp |-> NoSp, list |-> <<>>,
            outer |-> <<>>, restart |-> FALSE, stop |-> FALSE, enabled |-> "nil",
            lastOp |-> "none", lastId |-> 0, code |-> 0]

\* the handler returns c.JSON(code, ...) and releases Handler.rwLock
Respond(code) ==
    [IdleHnd EXCEPT !.lastOp = hnd.op, !.code = code,
                    !.lastId = IF hnd.op \in {"CreateHost", "UpdateHost", "DeleteHost"}
                               THEN hnd.host.id ELSE hnd.sp.id]

RespondAs(op, id, code) == [IdleHnd EXCEPT !.lastOp = op, !.lastId = id, !.code = code]

\* ================================================================= Manager
\* manager.go lines 49-56
TunnelOf(host, sp) ==
    NewTunnel(host.id, sp.id, SprintfAddr(host.ip, host.port),
              SprintfAddr(<<"0.0.0.0">>, sp.localPort),
              SprintfAddr(sp.serviceIP, sp.servicePort))

\* StartTunnel without the lookup of lines 35-38
StartTunnelResult_NoLookup(host, sp) ==
    LET tunnel == TunnelOf(host, sp) IN
    IF ~(/\ ResolveTCPAddr(tunnel.local)
         /\ ResolveTCPAddr(tunnel.server)
         /\ ResolveTCPAddr(tunnel.remote)) THEN "resolve"
    ELSE "ok"

\* StartTunnel whose NewSSHTunnel never fails (lines 58-69 without the error)
StartTunnelResult_NoResolve(host, sp) ==
    IF registry[<<host.id, sp.id>>] # 0 THEN "exists" ELSE "ok"

\* what Manager.StartTunnel returns (lines 35-38, 58-69)
StartTunnelResult(host, sp) ==
    LET tunnel == TunnelOf(host, sp) IN
    IF registry[<<host.id, sp.id>>] # 0 THEN "exists"
    ELSE IF ~(/\ ResolveTCPAddr(tunnel.local)
              /\ ResolveTCPAddr(tunnel.server)
              /\ ResolveTCPAddr(tunnel.remote)) THEN "resolve"
    ELSE "ok"

FreeRtIds == {r \in RtIds : ~rt[r].used}

\* gorm Where(...).Attrs(tunnel).FirstOrCreate(&tunnel): the row found, else the
\* row created from tunnel; either way the row is what tunnel then holds
FirstOrCreate(table, pair, tunnel) ==
    IF table[pair] = NoRec THEN tunnel ELSE table[pair]

\* Manager.StartTunnel, lines 31-85, under m.mu
StartTunnel(host, sp) ==
    LET key == <<host.id, sp.id>>
        res == StartTunnelResult(host, sp)
        tunnel == TunnelOf(host, sp)
    IN  IF res # "ok"
        THEN /\ mgr' = [op |-> "StartTunnel", pair |-> key, res |-> res]
             /\ UNCHANGED <<registry, recs, rt, tasks, dbFaults, budget>>
        ELSE /\ FreeRtIds # {}
             /\ \E dbErr \in DbOutcomes :
                  LET r == Min(FreeRtIds)
                      n == <<r, 1>>
                      row == FirstOrCreate(recs, key, tunnel)
                  IN  /\ registry' = [registry EXCEPT ![key] = r]
                      /\ IF dbErr
                         THEN \* lines 75-80: FirstOrCreate fails after line 73
                              /\ mgr' = [op |-> "StartTunnel", pair |-> key, res |-> "upsert"]
                              /\ rt' = [rt EXCEPT ![r] =
                                          NewSSHTunnel(host.id, sp.id, tunnel.server,
                                                       tunnel.local, tunnel)]
                              /\ dbFaults' = dbFaults - 1
                              /\ budget' = budget - 1
                              /\ UNCHANGED <<recs, tasks>>
                         ELSE /\ mgr' = [op |-> "StartTunnel", pair |-> key, res |-> "ok"]
                              /\ recs' = [recs EXCEPT ![key] = row]
                              /\ rt' = [rt EXCEPT ![r] =
                                          NewSSHTunnel(host.id, sp.id, tunnel.server,
                                                       tunnel.local, row)]
                              /\ tasks' = [tasks EXCEPT ![n] =
                                             [FreeTask EXCEPT !.used = TRUE, !.r = r,
                                                              !.kind = "start", !.pc = "s_select"]]
                              /\ UNCHANGED <<dbFaults, budget>>

\* ================================================================ handlers
Busy == hnd.pc # "idle"

\* CreateHost, lines 50-97: the row is created (enabled defaults to true), the
\* service ports are read, the transaction commits
CreateHost(ip, port, user, password) ==
    /\ ~Busy /\ budget > 0
    /\ budget' = budget - 1
    /\ ops' = ops + 1
    /\ IF \E i \in LiveHosts : hosts[i].ip = ip
       THEN /\ hnd' = RespondAs("CreateHost", 0, 500)
            /\ UNCHANGED <<hosts, nextHost>>
       ELSE /\ nextHost <= MaxHosts
            /\ LET host == [id |-> nextHost, ip |-> ip, port |-> port, user |-> user,
                            password |-> password, enabled |-> TRUE]
               IN  /\ hosts' = [hosts EXCEPT ![nextHost] = host]
                   /\ hnd' = [IdleHnd EXCEPT !.op = "CreateHost", !.pc = "startLoop",
                                             !.host = host, !.list = Ascending(LiveSps)]
            /\ nextHost' = nextHost + 1
    /\ UNCHANGED <<fwd, dbFaults, sig, sps, nextSp, registry, mgr, rt, tasks, clients, stoppers, recs,
                   doneCloses, deletes>>

\* UpdateHost, lines 188-281: the row is read, changed and saved; which of the
\* two fan-outs run is decided from the row read and the request
UpdateHost(id, ip, port, user, password, enabled) ==
    /\ ~Busy /\ budget > 0
    /\ budget' = budget - 1
    /\ ops' = ops + 1
    /\ LET old == hosts[id]
           needTunnelRestart ==
               \/ ip # <<>> /\ old.ip # ip
               \/ port # "nil" /\ old.port # port
               \/ user # "" /\ old.user # user
               \/ password # "" /\ old.password # password
           needTunnelStop == enabled = "false"
           host == [old EXCEPT !.ip = IF ip # <<>> THEN ip ELSE @,
                               !.port = IF port # "nil" THEN port ELSE @,
                               !.user = IF user # "" THEN user ELSE @,
                               !.password = IF password # "" THEN password ELSE @]
           stopFan == (host.enabled /\ needTunnelStop) \/ needTunnelRestart
           startFan == (~host.enabled /\ ~needTunnelStop) \/ needTunnelRestart
       IN  IF old.id = 0
           THEN /\ hnd' = RespondAs("UpdateHost", id, 404)
                /\ UNCHANGED hosts
           ELSE IF \E i \in LiveHosts \ {id} : hosts[i].ip = host.ip
           THEN /\ hnd' = RespondAs("UpdateHost", id, 500)
                /\ UNCHANGED hosts
           ELSE /\ hosts' = [hosts EXCEPT ![id] = host]
                /\ hnd' = [IdleHnd EXCEPT !.op = "UpdateHost", !.host = host,
                              !.pc = IF stopFan THEN "stopLoop"
                                     ELSE IF startFan THEN "startLoop" ELSE "finish",
                              !.list = IF stopFan \/ startFan THEN Ascending(LiveSps) ELSE <<>>,
                              !.restart = startFan, !.stop = stopFan,
                              !.enabled = enabled]
    /\ UNCHANGED <<fwd, dbFaults, sig, sps, nextHost, nextSp, registry, mgr, rt, tasks, clients, stoppers, recs,
                   doneCloses, deletes>>

\* DeleteHost, lines 329-355
DeleteHost(id) ==
    /\ ~Busy /\ budget > 0
    /\ budget' = budget - 1
    /\ ops' = ops + 1
    /\ hnd' = IF hosts[id].id = 0 THEN RespondAs("DeleteHost", id, 404)
              ELSE [IdleHnd EXCEPT !.op = "DeleteHost", !.pc = "stopLoop",
                                   !.host = hosts[id], !.list = Ascending(LiveSps)]
    /\ UNCHANGED <<fwd, dbFaults, sig, hosts, sps, nextHost, nextSp, registry, mgr, rt, tasks, clients, stoppers,
                   recs, doneCloses, deletes>>

\* CreateServicePort on a table without idx_service_ip_port
CreateServicePort_NoIndex(serviceIP, servicePort, localPort) ==
    /\ ~Busy /\ budget > 0
    /\ budget' = budget - 1
    /\ ops' = ops + 1
    /\ nextSp <= MaxSps
    /\ hnd' = [IdleHnd EXCEPT !.op = "CreateServicePort", !.pc = "startLoop",
                  !.sp = [id |-> nextSp, serviceIP |-> serviceIP,
                          servicePort |-> servicePort, localPort |-> localPort],
                  !.list = Ascending(LiveHosts)]
    /\ nextSp' = nextSp + 1
    /\ UNCHANGED <<fwd, dbFaults, sig, hosts, sps, nextHost, registry, mgr, rt, tasks, clients, stoppers, recs,
                   doneCloses, deletes>>

\* CreateServicePort, lines 417-454: the row is created inside a transaction
\* that stays open over the fan-out; the hosts are read outside it
CreateServicePort(serviceIP, servicePort, localPort) ==
    /\ ~Busy /\ budget > 0
    /\ budget' = budget - 1
    /\ ops' = ops + 1
    /\ IF \E i \in LiveSps : sps[i].serviceIP = serviceIP /\ sps[i].servicePort = servicePort
       THEN /\ hnd' = RespondAs("CreateServicePort", 0, 500)
            /\ UNCHANGED nextSp
       ELSE /\ nextSp <= MaxSps
            /\ hnd' = [IdleHnd EXCEPT !.op = "CreateServicePort", !.pc = "startLoop",
                          !.sp = [id |-> nextSp, serviceIP |-> serviceIP,
                                  servicePort |-> servicePort, localPort |-> localPort],
                          !.list = Ascending(LiveHosts)]
            /\ nextSp' = nextSp + 1
    /\ UNCHANGED <<fwd, dbFaults, sig, hosts, sps, nextHost, registry, mgr, rt, tasks, clients, stoppers, recs,
                   doneCloses, deletes>>

\* UpdateServicePort, lines 541-586
UpdateServicePort(id, serviceIP, servicePort, localPort) ==
    /\ ~Busy /\ budget > 0
    /\ budget' = budget - 1
    /\ ops' = ops + 1
    /\ hnd' = IF sps[id].id = 0 THEN RespondAs("UpdateServicePort", id, 404)
              ELSE [IdleHnd EXCEPT !.op = "UpdateServicePort", !.pc = "stopLoop",
                       !.sp = [id |-> id, serviceIP |-> serviceIP,
                               servicePort |-> servicePort, localPort |-> localPort],
                       !.list = Ascending(LiveHosts)]
    /\ UNCHANGED <<fwd, dbFaults, sig, hosts, sps, nextHost, nextSp, registry, mgr, rt, tasks, clients, stoppers,
                   recs, doneCloses, deletes>>

\* DeleteServicePort, lines 646-675
DeleteServicePort(id) ==
    /\ ~Busy /\ budget > 0
    /\ budget' = budget - 1
    /\ ops' = ops + 1
    /\ hnd' = IF sps[id].id = 0 THEN RespondAs("DeleteServicePort", id, 404)
              ELSE [IdleHnd EXCEPT !.op = "DeleteServicePort", !.pc = "stopLoop",
                                   !.sp = sps[id], !.list = Ascending(LiveHosts)]
    /\ UNCHANGED <<fwd, dbFaults, sig, hosts, sps, nextHost, nextSp, registry, mgr, rt, tasks, clients, stoppers,
                   recs, doneCloses, deletes>>

HostOp == hnd.op \in {"CreateHost", "UpdateHost", "DeleteHost"}

\* the pair of the fan-out's current iteration
CurHost == IF HostOp THEN hnd.host ELSE hosts[Head(hnd.list)]
CurSp == IF HostOp THEN sps[Head(hnd.list)] ELSE hnd.sp

\* Manager.mu is held by StopAllTunnels's StopTunnel while sig.pc = "stopWait"
\* and by a handler's StopTunnel while hnd.pc = "stopWait".
\* one iteration of a handler's StartTunnel loop (handlers lines 99-107,
\* 271-281, 456-469, 621-629); only CreateServicePort rolls back and returns
FanOut_StartTunnel ==
    /\ hnd.pc = "startLoop" /\ hnd.list # <<>>
    /\ sig.pc # "stopWait"
    /\ StartTunnel(CurHost, CurSp)
    /\ hnd' = IF hnd.op = "CreateServicePort" /\ mgr'.res # "ok"
              THEN Respond(500)
              ELSE [hnd EXCEPT !.list = Tail(@)]
    /\ UNCHANGED <<fwd, sig, hosts, sps, nextHost, nextSp, ops, clients, stoppers, doneCloses, deletes>>

\* StopTunnel that treats an absent key as stopped: it deletes the pair's row
\* and returns nil
FanOut_StopTunnel_Lenient ==
    /\ hnd.pc = "stopLoop" /\ hnd.list # <<>>
    /\ sig.pc # "stopWait"
    /\ LET key == <<CurHost.id, CurSp.id>> IN
       IF registry[key] = 0
       THEN /\ mgr' = [op |-> "StopTunnel", pair |-> key, res |-> "ok"]
            /\ hnd' = [hnd EXCEPT !.list = Tail(@)]
            /\ recs' = DbDelete(recs, key)
            /\ UNCHANGED stoppers
       ELSE /\ mgr' = [op |-> "StopTunnel", pair |-> key, res |-> "none"]
            /\ hnd' = [hnd EXCEPT !.pc = "stopWait"]
            /\ stoppers' = [stoppers EXCEPT ![1] = [pc |-> "call", r |-> registry[key],
                                                    res |-> "none"]]
            /\ UNCHANGED recs
    /\ UNCHANGED <<fwd, dbFaults, sig, budget, hosts, sps, nextHost, nextSp, registry, ops, rt, tasks, clients,
                   doneCloses, deletes>>

\* one iteration of a handler's StopTunnel loop: Manager.StopTunnel lines 87-97,
\* up to the call of tunnel.Stop
FanOut_StopTunnel ==
    /\ hnd.pc = "stopLoop" /\ hnd.list # <<>>
    /\ sig.pc # "stopWait"
    /\ LET key == <<CurHost.id, CurSp.id>> IN
       IF registry[key] = 0
       THEN /\ mgr' = [op |-> "StopTunnel", pair |-> key, res |-> "notfound"]
            /\ hnd' = [hnd EXCEPT !.list = Tail(@)]
            /\ UNCHANGED stoppers
       ELSE /\ mgr' = [op |-> "StopTunnel", pair |-> key, res |-> "none"]
            /\ hnd' = [hnd EXCEPT !.pc = "stopWait"]
            /\ stoppers' = [stoppers EXCEPT ![1] = [pc |-> "call", r |-> registry[key],
                                                    res |-> "none"]]
    /\ UNCHANGED <<fwd, dbFaults, sig, budget, hosts, sps, nextHost, nextSp, registry, ops, rt, tasks, clients, recs,
                   doneCloses, deletes>>

\* Manager.StopTunnel lines 97-104: tunnel.Stop returned
StopTunnel_Return ==
    /\ hnd.pc = "stopWait" /\ stoppers[1].pc = "ret"
    /\ registry' = IF stoppers[1].res = "ok" THEN [registry EXCEPT ![mgr.pair] = 0]
                   ELSE registry
    /\ mgr' = [mgr EXCEPT !.res = stoppers[1].res]
    /\ stoppers' = [stoppers EXCEPT ![1] = IdleStopper]
    /\ hnd' = [hnd EXCEPT !.pc = "stopLoop", !.list = Tail(@)]
    /\ UNCHANGED <<fwd, dbFaults, sig, budget, hosts, sps, nextHost, nextSp, ops, rt, tasks, clients, recs,
                   doneCloses, deletes>>

\* CreateHost, lines 109-112
CreateHost_Return ==
    /\ hnd.op = "CreateHost" /\ hnd.pc = "startLoop" /\ hnd.list = <<>>
    /\ hnd' = Respond(201)
    /\ UNCHANGED <<fwd, dbFaults, sig, budget, hosts, sps, nextHost, nextSp, registry, mgr, ops, rt, tasks, clients,
                   stoppers, recs, doneCloses, deletes>>

\* UpdateHost, line 271: the stop loop is over
UpdateHost_AfterStop ==
    /\ hnd.op = "UpdateHost" /\ hnd.pc = "stopLoop" /\ hnd.list = <<>>
    /\ hnd' = IF hnd.restart
              THEN [hnd EXCEPT !.pc = "startLoop", !.list = Ascending(LiveSps)]
              ELSE [hnd EXCEPT !.pc = "finish"]
    /\ UNCHANGED <<fwd, dbFaults, sig, budget, hosts, sps, nextHost, nextSp, registry, mgr, ops, rt, tasks, clients,
                   stoppers, recs, doneCloses, deletes>>

\* UpdateHost, lines 283-317: the enabled flag is saved last
UpdateHost_Finish ==
    /\ hnd.op = "UpdateHost"
    /\ hnd.pc = "finish" \/ (hnd.pc = "startLoop" /\ hnd.list = <<>>)
    /\ hosts' = IF hnd.enabled # "nil" /\ hnd.host.enabled # (hnd.enabled = "true")
                THEN [hosts EXCEPT ![hnd.host.id] =
                         [hnd.host EXCEPT !.enabled = (hnd.enabled = "true")]]
                ELSE hosts
    /\ hnd' = Respond(200)
    /\ UNCHANGED <<fwd, dbFaults, sig, budget, sps, nextHost, nextSp, registry, mgr, ops, rt, tasks, clients,
                   stoppers, recs, doneCloses, deletes>>

\* DeleteHost, lines 367-396
DeleteHost_Finish ==
    /\ hnd.op = "DeleteHost" /\ hnd.pc = "stopLoop" /\ hnd.list = <<>>
    /\ hosts' = [hosts EXCEPT ![hnd.host.id] = NoHost]
    /\ hnd' = Respond(200)
    /\ UNCHANGED <<fwd, dbFaults, sig, budget, sps, nextHost, nextSp, registry, mgr, ops, rt, tasks, clients,
                   stoppers, recs, doneCloses, deletes>>

\* CreateServicePort, lines 471-482: the transaction commits
CreateServicePort_Commit ==
    /\ hnd.op = "CreateServicePort" /\ hnd.pc = "startLoop" /\ hnd.list = <<>>
    /\ sps' = [sps EXCEPT ![hnd.sp.id] = hnd.sp]
    /\ hnd' = Respond(201)
    /\ UNCHANGED <<fwd, dbFaults, sig, budget, hosts, nextHost, nextSp, registry, mgr, ops, rt, tasks, clients,
                   stoppers, recs, doneCloses, deletes>>

\* UpdateServicePort, lines 598-619: the row is saved after the tunnels were
\* stopped; a uniqueness violation rolls back and returns
UpdateServicePort_Save ==
    /\ hnd.op = "UpdateServicePort" /\ hnd.pc = "stopLoop" /\ hnd.list = <<>>
    /\ IF \E i \in LiveSps \ {hnd.sp.id} :
             /\ sps[i].serviceIP = hnd.sp.serviceIP
             /\ sps[i].servicePort = hnd.sp.servicePort
       THEN /\ hnd' = Respond(500)
            /\ UNCHANGED sps
       ELSE /\ sps' = [sps EXCEPT ![hnd.sp.id] = hnd.sp]
            /\ hnd' = [hnd EXCEPT !.pc = "startLoop", !.list = Ascending(LiveHosts)]
    /\ UNCHANGED <<fwd, dbFaults, sig, budget, hosts, nextHost, nextSp, registry, mgr, ops, rt, tasks, clients,
                   stoppers, recs, doneCloses, deletes>>

\* UpdateServicePort, lines 631-634
UpdateServicePort_Return ==
    /\ hnd.op = "UpdateServicePort" /\ hnd.pc = "startLoop" /\ hnd.list = <<>>
    /\ hnd' = Respond(200)
    /\ UNCHANGED <<fwd, dbFaults, sig, budget, hosts, sps, nextHost, nextSp, registry, mgr, ops, rt, tasks, clients,
                   stoppers, recs, doneCloses, deletes>>

\* DeleteServicePort, lines 687-707
DeleteServicePort_Finish ==
    /\ hnd.op = "DeleteServicePort" /\ hnd.pc = "stopLoop" /\ hnd.list = <<>>
    /\ sps' = [sps EXCEPT ![hnd.sp.id] = NoSp]
    /\ hnd' = Respond(200)
    /\ UNCHANGED <<fwd, dbFaults, sig, budget, hosts, nextHost, nextSp, registry, mgr, ops, rt, tasks, clients,
                   stoppers, recs, doneCloses, deletes>>

\* ======================================================= RestoreAllTunnels
\* RestoreAllTunnels without the two len(...) == 0 returns
RestoreAllTunnels_Read_NoEmptyCheck ==
    /\ hnd.pc = "restore"
    /\ hnd' = [hnd EXCEPT !.pc = "restoreHost", !.outer = Ascending(LiveHosts)]
    /\ UNCHANGED <<fwd, dbFaults, sig, budget, hosts, sps, nextHost, nextSp, registry, mgr, ops, rt, tasks, clients,
                   stoppers, recs, doneCloses, deletes>>

\* manager.go lines 135-164: both tables are read under m.mu; nothing to do
\* when either is empty
RestoreAllTunnels_Read ==
    /\ hnd.pc = "restore"
    /\ hnd' = IF LiveHosts = {} \/ LiveSps = {}
              THEN RespondAs("RestoreAllTunnels", 0, 0)
              ELSE [hnd EXCEPT !.pc = "restoreHost", !.outer = Ascending(LiveHosts)]
    /\ UNCHANGED <<fwd, dbFaults, sig, budget, hosts, sps, nextHost, nextSp, registry, mgr, ops, rt, tasks, clients,
                   stoppers, recs, doneCloses, deletes>>

\* lines 166-170: the rows of the next host are deleted
RestoreAllTunnels_Reset ==
    /\ hnd.pc = "restoreHost" /\ hnd.outer # <<>>
    /\ recs' = [p \in Pairs |-> IF p[1] = Head(hnd.outer) THEN NoRec ELSE recs[p]]
    /\ hnd' = [hnd EXCEPT !.pc = "restoreSp", !.list = Ascending(LiveSps)]
    /\ UNCHANGED <<fwd, dbFaults, sig, budget, hosts, sps, nextHost, nextSp, registry, mgr, ops, rt, tasks, clients,
                   stoppers, doneCloses, deletes>>

\* lines 172-181: StartTunnel for the next service port; a failure is logged
RestoreAllTunnels_StartTunnel ==
    /\ hnd.pc = "restoreSp" /\ hnd.list # <<>>
    /\ sig.pc # "stopWait"
    /\ StartTunnel(hosts[Head(hnd.outer)], sps[Head(hnd.list)])
    /\ hnd' = [hnd EXCEPT !.list = Tail(@)]
    /\ UNCHANGED <<fwd, sig, hosts, sps, nextHost, nextSp, ops, clients, stoppers, doneCloses, deletes>>

\* line 166: the inner loop is over
RestoreAllTunnels_NextHost ==
    /\ hnd.pc = "restoreSp" /\ hnd.list = <<>>
    /\ hnd' = [hnd EXCEPT !.pc = "restoreHost", !.outer = Tail(@)]
    /\ UNCHANGED <<fwd, dbFaults, sig, budget, hosts, sps, nextHost, nextSp, registry, mgr, ops, rt, tasks, clients,
                   stoppers, recs, doneCloses, deletes>>

\* line 184; main then starts the HTTP server
RestoreAllTunnels_Return ==
    /\ hnd.pc = "restoreHost" /\ hnd.outer = <<>>
    /\ hnd' = RespondAs("RestoreAllTunnels", 0, 0)
    /\ UNCHANGED <<fwd, dbFaults, sig, budget, hosts, sps, nextHost, nextSp, registry, mgr, ops, rt, tasks, clients,
                   stoppers, recs, doneCloses, deletes>>

\* ========================================================== StopAllTunnels
\* main with the signal goroutine started before RestoreAllTunnels is called
Signal_BeforeRestore ==
    /\ sig.pc = "wait"
    /\ budget > 0
    /\ budget' = budget - 1
    /\ sig' = [sig EXCEPT !.pc = "read"]
    /\ UNCHANGED <<fwd, dbFaults, hosts, sps, nextHost, nextSp, registry, hnd, mgr, ops, rt, tasks,
                   clients, stoppers, recs, doneCloses, deletes>>

\* main lines 216-219: a signal arrives; the goroutine exists once
\* RestoreAllTunnels has returned
Signal ==
    /\ sig.pc = "wait"
    /\ hnd.op # "RestoreAllTunnels"
    /\ budget > 0
    /\ budget' = budget - 1
    /\ sig' = [sig EXCEPT !.pc = "read"]
    /\ UNCHANGED <<fwd, dbFaults, hosts, sps, nextHost, nextSp, registry, hnd, mgr, ops, rt, tasks,
                   clients, stoppers, recs, doneCloses, deletes>>

\* manager.go lines 188-202: m.mu is taken and the tables are read.  Without a
\* failure both are read and line 202 unlocks.  When the read of the hosts
\* fails, line 192 unlocks and the function goes on to line 195 with no hosts;
\* when the read of the service ports fails, line 199 unlocks and the
\* function goes on to line 202.
StopAllTunnels_Read ==
    /\ sig.pc = "read"
    /\ hnd.pc # "stopWait"
    /\ \E dbErr \in DbOutcomes, which \in {"hosts", "sps"} :
          IF dbErr
          THEN /\ sig' = [sig EXCEPT !.pc = IF which = "hosts" THEN "readSps" ELSE "unlock",
                                     !.outer = IF which = "hosts" THEN <<>>
                                               ELSE Ascending(LiveHosts),
                                     !.sps = <<>>,
                                     !.unlocks = 1]
               /\ dbFaults' = dbFaults - 1
               /\ budget' = budget - 1
          ELSE /\ sig' = [sig EXCEPT !.pc = "host", !.outer = Ascending(LiveHosts),
                                     !.sps = Ascending(LiveSps), !.unlocks = 1]
               /\ UNCHANGED <<dbFaults, budget>>
    /\ UNCHANGED <<fwd, hosts, sps, nextHost, nextSp, registry, hnd, mgr, ops, rt, tasks,
                   clients, stoppers, recs, doneCloses, deletes>>

\* lines 195-200 after line 192 has released m.mu: the service ports are read
\* without the lock; a failure unlocks once more at line 199
StopAllTunnels_ReadSps ==
    /\ sig.pc = "readSps"
    /\ \E dbErr \in DbOutcomes :
          IF dbErr
          THEN /\ sig' = [sig EXCEPT !.pc = IF hnd.pc = "stopWait" THEN "unlock" ELSE "fatal",
                                     !.unlocks = @ + 1]
               /\ dbFaults' = dbFaults - 1
               /\ budget' = budget - 1
          ELSE /\ sig' = [sig EXCEPT !.pc = "unlock", !.sps = Ascending(LiveSps)]
               /\ UNCHANGED <<dbFaults, budget>>
    /\ UNCHANGED <<fwd, hosts, sps, nextHost, nextSp, registry, hnd, mgr, ops, rt, tasks,
                   clients, stoppers, recs, doneCloses, deletes>>

\* line 202 after line 192 or 199 has released m.mu: the lock is not held by
\* StopAllTunnels.  If a handler's StopTunnel holds it, the handler's lock is
\* released under it and StopAllTunnels goes on to its loops; if nobody holds
\* it, sync.RWMutex.Unlock ends the process with a fatal error.
StopAllTunnels_Unlock ==
    /\ sig.pc = "unlock"
    /\ sig' = [sig EXCEPT !.pc = IF hnd.pc = "stopWait" THEN "host" ELSE "fatal",
                          !.unlocks = @ + 1]
    /\ UNCHANGED <<fwd, dbFaults, budget, hosts, sps, nextHost, nextSp, registry, hnd, mgr, ops, rt, tasks,
                   clients, stoppers, recs, doneCloses, deletes>>

\* lines 204-208: the rows of the next host are deleted
StopAllTunnels_Reset ==
    /\ sig.pc = "host" /\ sig.outer # <<>>
    /\ recs' = [p \in Pairs |-> IF p[1] = Head(sig.outer) THEN NoRec ELSE recs[p]]
    /\ sig' = [sig EXCEPT !.pc = "sp", !.list = sig.sps]
    /\ UNCHANGED <<fwd, dbFaults, budget, hosts, sps, nextHost, nextSp, registry, hnd, mgr, ops, rt, tasks,
                   clients, stoppers, doneCloses, deletes>>

\* lines 210-218 and Manager.StopTunnel lines 87-97, up to the call of
\* tunnel.Stop; an absent key is logged and the loop continues
StopAllTunnels_StopTunnel ==
    /\ sig.pc = "sp" /\ sig.list # <<>>
    /\ hnd.pc # "stopWait"
    /\ LET key == <<Head(sig.outer), Head(sig.list)>> IN
       IF registry[key] = 0
       THEN /\ mgr' = [op |-> "StopTunnel", pair |-> key, res |-> "notfound"]
            /\ sig' = [sig EXCEPT !.list = Tail(@)]
            /\ UNCHANGED stoppers
       ELSE /\ mgr' = [op |-> "StopTunnel", pair |-> key, res |-> "none"]
            /\ sig' = [sig EXCEPT !.pc = "stopWait"]
            /\ stoppers' = [stoppers EXCEPT ![2] = [pc |-> "call", r |-> registry[key],
                                                    res |-> "none"]]
    /\ UNCHANGED <<fwd, dbFaults, budget, hosts, sps, nextHost, nextSp, registry, hnd, ops, rt, tasks, clients,
                   recs, doneCloses, deletes>>

\* Manager.StopTunnel lines 97-104: tunnel.Stop returned
StopAllTunnels_StopReturn ==
    /\ sig.pc = "stopWait" /\ stoppers[2].pc = "ret"
    /\ registry' = IF stoppers[2].res = "ok" THEN [registry EXCEPT ![mgr.pair] = 0]
                   ELSE registry
    /\ mgr' = [mgr EXCEPT !.res = stoppers[2].res]
    /\ stoppers' = [stoppers EXCEPT ![2] = IdleStopper]
    /\ sig' = [sig EXCEPT !.pc = "sp", !.list = Tail(@)]
    /\ UNCHANGED <<fwd, dbFaults, budget, hosts, sps, nextHost, nextSp, hnd, ops, rt, tasks, clients, recs,
                   doneCloses, deletes>>

\* line 210: the inner loop is over
StopAllTunnels_NextHost ==
    /\ sig.pc = "sp" /\ sig.list = <<>>
    /\ sig' = [sig EXCEPT !.pc = "host", !.outer = Tail(@)]
    /\ UNCHANGED <<fwd, dbFaults, budget, hosts, sps, nextHost, nextSp, registry, hnd, mgr, ops, rt, tasks,
                   clients, stoppers, recs, doneCloses, deletes>>

\* line 221: StopAllTunnels returns; main lines 219-220 log and call os.Exit(0)
StopAllTunnels_Return ==
    /\ sig.pc = "host" /\ sig.outer = <<>>
    /\ sig' = [sig EXCEPT !.pc = "returned"]
    /\ UNCHANGED <<fwd, dbFaults, budget, hosts, sps, nextHost, nextSp, registry, hnd, mgr, ops, rt, tasks,
                   clients, stoppers, recs, doneCloses, deletes>>

\* =========================================================== specifications
Host1 == [id |-> 1, ip |-> Ip1, port |-> "22", user |-> "u", password |-> "p",
          enabled |-> TRUE]
Sp1 == [id |-> 1, serviceIP |-> <<"192.168.1.10">>, servicePort |-> "80",
        localPort |-> "8080"]

\* One pair as Manager.StartTunnel leaves it: the Runtime constructed and
\* registered, its row created with status = starting, its Start task spawned.
Init ==
    /\ hosts = [i \in HostIds |-> IF i = 1 THEN Host1 ELSE NoHost]
    /\ sps = [i \in SpIds |-> IF i = 1 THEN Sp1 ELSE NoSp]
    /\ nextHost = 2
    /\ nextSp = 2
    /\ registry = [p \in Pairs |-> IF p = <<1, 1>> THEN 1 ELSE 0]
    /\ hnd = IdleHnd
    /\ mgr = [op |-> "StartTunnel", pair |-> <<1, 1>>, res |-> "ok"]
    /\ ops = 0
    /\ sig = SigWait
    /\ fwd = [f \in FwdIds |-> NoFwd]
    /\ dbFaults = 0
    /\ budget = MaxEvents
    /\ rt = [r \in RtIds |->
                IF r = 1 THEN NewSSHTunnel(1, 1, TunnelOf(Host1, Sp1).server,
                                           TunnelOf(Host1, Sp1).local, TunnelOf(Host1, Sp1))
                ELSE FreeRt]
    /\ tasks = [t \in TaskIds |->
                IF t = <<1, 1>> THEN [FreeTask EXCEPT !.used = TRUE, !.r = 1, !.kind = "start",
                                               !.pc = "s_select"]
                ELSE FreeTask]
    /\ clients = [c \in ClientIds |-> FreeClient]
    /\ stoppers = [c \in StopperIds |-> IdleStopper]
    /\ recs = [p \in Pairs |-> IF p = <<1, 1>> THEN TunnelOf(Host1, Sp1) ELSE NoRec]
    /\ doneCloses = [r \in RtIds |-> 0]
    /\ deletes = [r \in RtIds |-> 0]

\* every step of establishConnection and saveTunnelStatus, whoever runs them
ConnectStep(t) ==
    \/ saveTunnelStatus_Check(t)
    \/ saveTunnelStatus_Save(t)
    \/ establishConnection_DialOk(t)
    \/ \E e \in {"dial", "auth"} : establishConnection_DialFail(t, e)
    \/ establishConnection_ListenOk(t)
    \/ establishConnection_ListenFail(t)
    \/ establishConnection_Store(t)
    \/ establishConnection_Connected(t)
    \/ establishConnection_Reset(t)
    \/ establishConnection_Spawn(t)
    \/ establishConnection_AcceptEOF(t)
    \/ establishConnection_AcceptError(t)

StartStep(t) ==
    \/ Start_Select(t)
    \/ Start_Check(t)
    \/ Start_Retry(t)

MonitorStep(t) ==
    \/ monitorConnection_Done(t)
    \/ monitorConnection_Tick(t)
    \/ \E ok \in BOOLEAN : monitorConnection_Probe(t, ok)
    \/ \E ok \in BOOLEAN : monitorConnection_Keepalive(t, ok)
    \/ reconnect_Check(t)
    \/ reconnect_Set(t)
    \/ reconnect_Close(t)

StopStep(c) ==
    \/ Stop_Lock(c)
    \/ Stop_CloseDone(c)
    \/ Stop_CloseClient(c)
    \/ Stop_Delete(c)
    \/ Stop_Return(c)

\* One Runtime, its tasks, and callers of Stop.
Next ==
    \/ \E t \in TaskIds : ConnectStep(t) \/ StartStep(t) \/ MonitorStep(t)
    \/ \E c \in StopperIds : StopStep(c)
    \/ \E c \in StopperIds, r \in RtIds : CallStop(c, r)

Spec == Init /\ [][Next]_vars

\* a row the previous process left behind
StaleRow == [TunnelOf(Host1, Sp1) EXCEPT !.status = "connected"]

\* The process as main constructs it: an empty registry over the store the
\* previous process left (empty, or one host and one service port), about to
\* call RestoreAllTunnels.
InitMgr ==
    /\ \/ /\ hosts = [i \in HostIds |-> NoHost]
          /\ sps = [i \in SpIds |-> NoSp]
          /\ nextHost = 1
          /\ nextSp = 1
          /\ recs = [p \in Pairs |-> NoRec]
       \/ /\ \E e \in BOOLEAN :
                hosts = [i \in HostIds |-> IF i = 1 THEN [Host1 EXCEPT !.enabled = e]
                                           ELSE NoHost]
          /\ sps = [i \in SpIds |-> IF i = 1 THEN Sp1 ELSE NoSp]
          /\ nextHost = 2
          /\ nextSp = 2
          /\ \E row \in {NoRec, StaleRow} :
                recs = [p \in Pairs |-> IF p = <<1, 1>> THEN row ELSE NoRec]
    /\ registry = [p \in Pairs |-> 0]
    /\ hnd = [IdleHnd EXCEPT !.op = "RestoreAllTunnels", !.pc = "restore"]
    /\ mgr = NoCall
    /\ ops = 0
    /\ sig = SigWait
    /\ fwd = [f \in FwdIds |-> NoFwd]
    /\ dbFaults = 0
    /\ budget = MaxEventsMgr
    /\ rt = [r \in RtIds |-> FreeRt]
    /\ tasks = [t \in TaskIds |-> FreeTask]
    /\ clients = [c \in ClientIds |-> FreeClient]
    /\ stoppers = [c \in StopperIds |-> IdleStopper]
    /\ doneCloses = [r \in RtIds |-> 0]
    /\ deletes = [r \in RtIds |-> 0]

Request ==
    \/ \E ip \in IPs, port \in Ports, user \in Users, password \in Passwords :
          CreateHost(ip, port, user, password)
    \/ \E id \in HostIds, ip \in IPs \cup {<<>>}, port \in Ports \cup {"nil"},
          user \in Users \cup {""}, password \in Passwords \cup {""},
          enabled \in {"nil", "true", "false"} :
          UpdateHost(id, ip, port, user, password, enabled)
    \/ \E id \in HostIds : DeleteHost(id)
    \/ \E serviceIP \in ServiceIPs, servicePort \in ServicePorts, localPort \in LocalPorts :
          CreateServicePort(serviceIP, servicePort, localPort)
    \/ \E id \in SpIds, serviceIP \in ServiceIPs, servicePort \in ServicePorts,
          localPort \in LocalPorts :
          UpdateServicePort(id, serviceIP, servicePort, localPort)
    \/ \E id \in SpIds : DeleteServicePort(id)

RestoreStep ==
    \/ RestoreAllTunnels_Read
    \/ RestoreAllTunnels_Reset
    \/ RestoreAllTunnels_StartTunnel
    \/ RestoreAllTunnels_NextHost
    \/ RestoreAllTunnels_Return

HandlerStep ==
    \/ FanOut_StartTunnel
    \/ FanOut_StopTunnel
    \/ StopTunnel_Return
    \/ CreateHost_Return
    \/ UpdateHost_AfterStop
    \/ UpdateHost_Finish
    \/ DeleteHost_Finish
    \/ CreateServicePort_Commit
    \/ UpdateServicePort_Save
    \/ UpdateServicePort_Return
    \/ DeleteServicePort_Finish

\* The REST handlers, the Manager and the Start tasks of the Runtimes they
\* create; no Supervisor ticks.
NextMgr ==
    \/ RestoreStep
    \/ Request
    \/ HandlerStep
    \/ StopStep(1)
    \/ \E t \in TaskIds : ConnectStep(t) \/ StartStep(t)

SpecMgr == InitMgr /\ [][NextMgr]_vars

\* The store of InitMgr, or one whose only service port was deleted while a
\* Start task of the previous process was inside saveTunnelStatus: its Save
\* (ssh.go line 68) put the row back after Stop had deleted it; or one whose
\* host, or whose service port, was created with an IPv6 address, which the
\* `ip` validation of CreateHostRequest and CreateServicePortRequest admits.
InitRestart ==
    \/ InitMgr
    \/ /\ \/ /\ hosts = [i \in HostIds |-> IF i = 1 THEN Host1 ELSE NoHost]
             /\ sps = [i \in SpIds |-> NoSp]
             /\ recs = [p \in Pairs |-> IF p = <<1, 1>> THEN StaleRow ELSE NoRec]
          \/ /\ hosts = [i \in HostIds |-> IF i = 1 THEN [Host1 EXCEPT !.ip = Ip6]
                                           ELSE NoHost]
             /\ sps = [i \in SpIds |-> IF i = 1 THEN Sp1 ELSE NoSp]
             /\ recs = [p \in Pairs |-> NoRec]
          \/ /\ hosts = [i \in HostIds |-> IF i = 1 THEN Host1 ELSE NoHost]
             /\ sps = [i \in SpIds |-> IF i = 1 THEN [Sp1 EXCEPT !.serviceIP = Ip6]
                                       ELSE NoSp]
             /\ recs = [p \in Pairs |-> NoRec]
       /\ nextHost = 2
       /\ nextSp = 2
       /\ registry = [p \in Pairs |-> 0]
       /\ hnd = [IdleHnd EXCEPT !.op = "RestoreAllTunnels", !.pc = "restore"]
       /\ mgr = NoCall
       /\ ops = 0
       /\ sig = SigWait
       /\ fwd = [f \in FwdIds |-> NoFwd]
       /\ dbFaults = 0
       /\ budget = MaxEventsMgr
       /\ rt = [r \in RtIds |-> FreeRt]
       /\ tasks = [t \in TaskIds |-> FreeTask]
       /\ clients = [c \in ClientIds |-> FreeClient]
       /\ stoppers = [c \in StopperIds |-> IdleStopper]
       /\ doneCloses = [r \in RtIds |-> 0]
       /\ deletes = [r \in RtIds |-> 0]

SpecRestart == InitRestart /\ [][NextMgr]_vars

\* A Runtime that has connected: its Start task is in the accept loop on the
\* listener of the stored client and its Supervisor is between ticks.
InitFwd ==
    /\ hosts = [i \in HostIds |-> IF i = 1 THEN Host1 ELSE NoHost]
    /\ sps = [i \in SpIds |-> IF i = 1 THEN Sp1 ELSE NoSp]
    /\ nextHost = 2
    /\ nextSp = 2
    /\ registry = [p \in Pairs |-> IF p = <<1, 1>> THEN 1 ELSE 0]
    /\ hnd = IdleHnd
    /\ mgr = [op |-> "StartTunnel", pair |-> <<1, 1>>, res |-> "ok"]
    /\ ops = 0
    /\ sig = SigWait
    /\ fwd = [f \in FwdIds |-> NoFwd]
    /\ dbFaults = 0
    /\ budget = MaxEvents
    /\ LET row == [TunnelOf(Host1, Sp1) EXCEPT !.status = "connected"] IN
       /\ rt = [r \in RtIds |->
                   IF r = 1 THEN [NewSSHTunnel(1, 1, row.server, row.local, row)
                                     EXCEPT !.client = 1]
                   ELSE FreeRt]
       /\ recs = [p \in Pairs |-> IF p = <<1, 1>> THEN row ELSE NoRec]
    /\ tasks = [t \in TaskIds |->
                IF t = <<1, 1>> THEN [FreeTask EXCEPT !.used = TRUE, !.r = 1, !.kind = "start",
                                               !.pc = "e_accept", !.cl = 1]
                ELSE IF t = <<1, 2>> THEN [FreeTask EXCEPT !.used = TRUE, !.r = 1,
                                                    !.kind = "monitor", !.pc = "m_select"]
                ELSE FreeTask]
    /\ clients = [c \in ClientIds |->
                  IF c = 1 THEN [FreeClient EXCEPT !.state = "open", !.r = 1,
                                                   !.listener = "open"]
                  ELSE FreeClient]
    /\ stoppers = [c \in StopperIds |-> IdleStopper]
    /\ doneCloses = [r \in RtIds |-> 0]
    /\ deletes = [r \in RtIds |-> 0]

NextFwd ==
    \/ \E t \in TaskIds : establishConnection_Accept(t)
    \/ \E f \in FwdIds : ForwardStep(f)

\* A goroutine that can take its next step eventually takes it, and a copy
\* whose connection was closed returns.  Whether the remote dial, or a copy
\* between two open connections, ever returns is left to the environment.
FairFwd ==
    \A f \in FwdIds :
        /\ WF_vars(forward_Recv(f))
        /\ WF_vars(forward_CloseRemote(f))
        /\ WF_vars(forward_CloseLocal(f))
        /\ \A i \in 1..2 : WF_vars(copy_Closed(f, i)) /\ WF_vars(copy_Send(f, i))

SpecFwd == InitFwd /\ [][NextFwd]_vars /\ FairFwd

\* The process as main constructs it over an empty store or a store with one
\* host and one service port, about to call RestoreAllTunnels.
InitStop ==
    /\ \/ /\ hosts = [i \in HostIds |-> NoHost]
          /\ sps = [i \in SpIds |-> NoSp]
          /\ nextHost = 1
          /\ nextSp = 1
       \/ /\ hosts = [i \in HostIds |-> IF i = 1 THEN Host1 ELSE NoHost]
          /\ sps = [i \in SpIds |-> IF i = 1 THEN Sp1 ELSE NoSp]
          /\ nextHost = 2
          /\ nextSp = 2
    /\ recs = [p \in Pairs |-> NoRec]
    /\ registry = [p \in Pairs |-> 0]
    /\ hnd = [IdleHnd EXCEPT !.op = "RestoreAllTunnels", !.pc = "restore"]
    /\ mgr = NoCall
    /\ ops = 0
    /\ sig = SigWait
    /\ fwd = [f \in FwdIds |-> NoFwd]
    /\ dbFaults = 0
    /\ budget = MaxEventsStop
    /\ rt = [r \in RtIds |-> FreeRt]
    /\ tasks = [t \in TaskIds |-> FreeTask]
    /\ clients = [c \in ClientIds |-> FreeClient]
    /\ stoppers = [c \in StopperIds |-> IdleStopper]
    /\ doneCloses = [r \in RtIds |-> 0]
    /\ deletes = [r \in RtIds |-> 0]

StopAllStep ==
    \/ StopAllTunnels_Read
    \/ StopAllTunnels_Reset
    \/ StopAllTunnels_StopTunnel
    \/ StopAllTunnels_StopReturn
    \/ StopAllTunnels_NextHost
    \/ StopAllTunnels_Return

\* NextMgr together with the signal goroutine of main; os.Exit, which ends
\* every behaviour some time after StopAllTunnels returned, is not a step
NextStop ==
    \/ RestoreStep
    \/ Request
    \/ HandlerStep
    \/ StopStep(1)
    \/ StopStep(2)
    \/ \E t \in TaskIds : ConnectStep(t) \/ StartStep(t)
    \/ Signal
    \/ StopAllStep

SpecStop == InitStop /\ [][NextStop]_vars

\* The process of InitStop over a database whose calls may fail: the
\* FirstOrCreate of StartTunnel, the Delete of Stop and the two reads of
\* StopAllTunnels.
InitDb ==
    /\ \/ /\ hosts = [i \in HostIds |-> NoHost]
          /\ sps = [i \in SpIds |-> NoSp]
          /\ nextHost = 1
          /\ nextSp = 1
       \/ /\ hosts = [i \in HostIds |-> IF i = 1 THEN Host1 ELSE NoHost]
          /\ sps = [i \in SpIds |-> IF i = 1 THEN Sp1 ELSE NoSp]
          /\ nextHost = 2
          /\ nextSp = 2
    /\ recs = [p \in Pairs |-> NoRec]
    /\ registry = [p \in Pairs |-> 0]
    /\ hnd = [IdleHnd EXCEPT !.op = "RestoreAllTunnels", !.pc = "restore"]
    /\ mgr = NoCall
    /\ ops = 0
    /\ sig = SigWait
    /\ fwd = [f \in FwdIds |-> NoFwd]
    /\ dbFaults = MaxDbFaults
    /\ budget = MaxEventsStop
    /\ rt = [r \in RtIds |-> FreeRt]
    /\ tasks = [t \in TaskIds |-> FreeTask]
    /\ clients = [c \in ClientIds |-> FreeClient]
    /\ stoppers = [c \in StopperIds |-> IdleStopper]
    /\ doneCloses = [r \in RtIds |-> 0]
    /\ deletes = [r \in RtIds |-> 0]

NextDb ==
    \/ NextStop
    \/ StopAllTunnels_ReadSps
    \/ StopAllTunnels_Unlock

SpecDb == InitDb /\ [][NextDb]_vars

\* The process of InitStop with the Supervisors of its Runtimes: handlers,
\* Manager operations, the signal goroutine, Start tasks, Supervisors and their
\* reconnects, and Stop, over a database whose calls succeed.
NextLock ==
    \/ NextStop
    \/ \E t \in TaskIds : MonitorStep(t)

SpecLock == InitStop /\ [][NextLock]_vars

\* ================================================================ properties
\* Nothing is in progress: no handler holds the handler lock, no Stop runs, and
\* every task has returned, waits in Accept on an open listener, or is a
\* Supervisor between ticks.
Quiescent ==
    /\ hnd.pc = "idle"
    /\ \A c \in StopperIds : stoppers[c].pc \in {"idle", "ret"}
    /\ \A t \in TaskIds :
          tasks[t].used =>
             \/ tasks[t].pc = "exit"
             \/ tasks[t].pc = "m_select"
             \/ tasks[t].pc = "e_accept" /\ clients[tasks[t].cl].listener = "open"

\* the step is a call of Manager.StartTunnel by a handler or by Restore
StartTunnelStep ==
    /\ hnd.pc \in {"startLoop", "restoreSp"}
    /\ hnd.list # <<>>
    /\ hnd' # hnd

StartHost == IF hnd.pc = "restoreSp" THEN hosts[Head(hnd.outer)] ELSE CurHost
StartSp == IF hnd.pc = "restoreSp" THEN sps[Head(hnd.list)] ELSE CurSp
StartKey == <<StartHost.id, StartSp.id>>

\* the step is a call of Manager.StopTunnel by a handler
StopTunnelStep ==
    /\ hnd.pc = "stopLoop"
    /\ hnd.list # <<>>
    /\ hnd' # hnd

\* C1: once Stop has returned for a Runtime, the Runtime holds no open SSH
\* client and no client dialed for it has an open remote listener, whatever
\* connect attempt was in flight when Stop ran.
C1_StoppedHoldsNothing ==
    \A r \in RtIds :
        rt[r].isStopped =>
            /\ rt[r].client = 0 \/ clients[rt[r].client].state # "open"
            /\ \A c \in ClientIds : clients[c].r = r => clients[c].listener # "open"

\* C2: after Stop has deleted the row of a Runtime's pair, no step of that
\* Runtime's tasks creates or changes a row of the pair.
C2_NoWriteAfterDelete ==
    [][\A r \in RtIds :
          deletes[r] > 0 => recs'[rt[r].pair] = recs[rt[r].pair]]_vars

\* C3: at quiescence, every enabled host and every service port of the store
\* have a row in the tunnels table for their pair.
C3_OneRecordPerEnabledPair ==
    Quiescent =>
        \A h \in LiveHosts, s \in LiveSps :
            hosts[h].enabled => recs[<<h, s>>] # NoRec

\* C4: at quiescence, a row exists for a pair exactly when a Runtime is
\* registered under the pair's key.
C4_RegistryMatchesRecords ==
    Quiescent => \A p \in Pairs : (recs[p] # NoRec) <=> (registry[p] # 0)

\* C5: over any calls of Stop on one Runtime, done is closed at most once and
\* the DELETE is issued at most once; every call that has returned returned
\* nil, and by then done was closed once and the DELETE issued once.
C5_StopIdempotent ==
    \A r \in RtIds :
        /\ doneCloses[r] <= 1
        /\ deletes[r] <= 1
        /\ \A c \in StopperIds :
              (stoppers[c].pc = "ret" /\ stoppers[c].r = r) =>
                  /\ stoppers[c].res = "ok"
                  /\ doneCloses[r] = 1
                  /\ deletes[r] = 1

\* two calls of Stop on the same Runtime have both returned
C5_BothReturned ==
    /\ stoppers[1].pc = "ret" /\ stoppers[1].r = 1
    /\ stoppers[2].pc = "ret" /\ stoppers[2].r = 1

\* C6: StartTunnel called for a pair that has a registered Runtime returns the
\* already-exists error and leaves the registry, every Runtime, every row and
\* every task as they were.
C6_DuplicateStartRejected ==
    [][(StartTunnelStep /\ registry[StartKey] # 0) =>
          /\ mgr'.op = "StartTunnel"
          /\ mgr'.pair = StartKey
          /\ mgr'.res = "exists"
          /\ UNCHANGED <<registry, rt, recs, tasks, clients>>]_vars

\* StartTunnel has just been refused for a registered pair
C6_Rejected ==
    /\ mgr.op = "StartTunnel"
    /\ mgr.res = "exists"
    /\ registry[mgr.pair] # 0

\* C7: when StartTunnel returns nil, a Runtime is registered for the pair with
\* its Start task spawned, and the pair's row has status = starting and the
\* server, local and remote strings built from the host and the service port.
C7_StartedRecord ==
    [][(StartTunnelStep /\ mgr'.res = "ok") =>
          LET want == TunnelOf(StartHost, StartSp) IN
          /\ registry'[StartKey] # 0
          /\ tasks'[<<registry'[StartKey], 1>>].kind = "start"
          /\ recs'[StartKey].status = "starting"
          /\ recs'[StartKey].server = want.server
          /\ recs'[StartKey].local = want.local
          /\ recs'[StartKey].remote = want.remote]_vars

\* C8: StopTunnel called for a key with no registered Runtime returns the
\* not-found error and changes no Runtime, no row, no task and no client.
C8_StopAbsentRejected ==
    [][(StopTunnelStep /\ registry[<<CurHost.id, CurSp.id>>] = 0) =>
          /\ mgr'.op = "StopTunnel"
          /\ mgr'.pair = <<CurHost.id, CurSp.id>>
          /\ mgr'.res = "notfound"
          /\ UNCHANGED <<registry, rt, recs, tasks, clients, stoppers, doneCloses,
                         deletes>>]_vars

\* StopTunnel has just been refused for an unregistered key
C8_Rejected ==
    /\ mgr.op = "StopTunnel"
    /\ mgr.res = "notfound"
    /\ registry[mgr.pair] = 0

\* C9: from the moment DeleteHost (DeleteServicePort) has answered 200 until
\* the next request, no Runtime is registered and no row exists for any pair
\* of the deleted host (service port).
C9_DeletedHasNoTunnels ==
    /\ (hnd.pc = "idle" /\ hnd.lastOp = "DeleteHost" /\ hnd.code = 200) =>
          \A s \in SpIds :
              registry[<<hnd.lastId, s>>] = 0 /\ recs[<<hnd.lastId, s>>] = NoRec
    /\ (hnd.pc = "idle" /\ hnd.lastOp = "DeleteServicePort" /\ hnd.code = 200) =>
          \A h \in HostIds :
              registry[<<h, hnd.lastId>>] = 0 /\ recs[<<h, hnd.lastId>>] = NoRec

\* C10: at quiescence after an UpdateHost of an enabled host that answered
\* 200, every Runtime registered for a pair of that host dials the host's
\* stored ip:port, and the pair's row, when there is one, has that ip:port as
\* its server.
C10_ServerFollowsHost ==
    (/\ Quiescent
     /\ hnd.lastOp = "UpdateHost" /\ hnd.code = 200
     /\ hosts[hnd.lastId].enabled) =>
        \A s \in LiveSps :
            LET p == <<hnd.lastId, s>>
                addr == SprintfAddr(hosts[hnd.lastId].ip, hosts[hnd.lastId].port)
            IN  registry[p] # 0 =>
                   /\ rt[registry[p]].server = addr
                   /\ recs[p] # NoRec => recs[p].server = addr

\* the step is a handler's answer to the request it was serving
ResponseStep == hnd.pc # "idle" /\ hnd'.pc = "idle"

\* C11: when UpdateHost answers 200 for a host that was enabled: if the
\* request carried enabled = false, no Runtime is registered for any pair of
\* the host; if it carried enabled = true, a Runtime is registered for every
\* service port of the store.
C11_EnabledFieldDecides ==
    [][(ResponseStep /\ hnd.op = "UpdateHost" /\ hnd'.code = 200 /\ hnd.host.enabled) =>
          /\ hnd.enabled = "false" =>
                \A s \in LiveSps : registry'[<<hnd.host.id, s>>] = 0
          /\ hnd.enabled = "true" =>
                \A s \in LiveSps : registry'[<<hnd.host.id, s>>] # 0]_vars

\* C12: when CreateHost answers 201, a Runtime is registered for the new host
\* and every service port of the store; when CreateServicePort answers 201, a
\* Runtime is registered for every host of the store and the new service port.
C12_CreateStartsAll ==
    [][/\ (ResponseStep /\ hnd.op = "CreateHost" /\ hnd'.code = 201) =>
             \A s \in LiveSps : registry'[<<hnd.host.id, s>>] # 0
       /\ (ResponseStep /\ hnd.op = "CreateServicePort" /\ hnd'.code = 201) =>
             \A h \in LiveHosts : registry'[<<h, hnd.sp.id>>] # 0]_vars

\* C13: every change of the status of an existing row is one of
\* starting->connected, connected->reconnecting, reconnecting->connected,
\* reconnecting->error, error->reconnecting, anything->error, or the deletion
\* of the row.
C13_StatusTrajectory ==
    [][\A p \in Pairs :
          (recs[p] # NoRec /\ recs'[p].status # recs[p].status) =>
              \/ <<recs[p].status, recs'[p].status>> \in
                    {<<"starting", "connected">>, <<"connected", "reconnecting">>,
                     <<"reconnecting", "connected">>, <<"reconnecting", "error">>,
                     <<"error", "reconnecting">>}
              \/ recs'[p].status = "error"
              \/ recs'[p] = NoRec]_vars

\* task t writes the row for the connect it has just completed (line 222)
ConnectedSaveStep(t) ==
    /\ tasks[t].used
    /\ tasks[t].pc = "sv_write"
    /\ tasks[t].ret = "e_spawn"
    /\ tasks'[t].pc = "e_spawn"

\* C14: the retryCount a Runtime keeps for its row decreases only when a
\* connect attempt has succeeded (lines 219-220), which sets it to 0, and the
\* write of every successful connect leaves the row's retryCount at 0.
C14_RetryCountResets ==
    [][/\ \A r \in RtIds :
             (rt[r].used /\ rt'[r].tun.retryCount < rt[r].tun.retryCount) =>
                 /\ rt'[r].tun.retryCount = 0
                 /\ \E t \in TaskIds :
                       tasks[t].r = r /\ tasks[t].pc = "e_reset" /\ tasks'[t].pc # "e_reset"
       /\ \A t \in TaskIds :
             ConnectedSaveStep(t) => recs'[rt[tasks[t].r].pair].retryCount = 0]_vars

\* C15: whenever the row of a pair has status = connected and the pair's
\* registered Runtime is not being stopped, the Runtime's client is set and
\* open and has an open remote listener.
C15_ConnectedHasListener ==
    \A p \in Pairs :
        LET r == registry[p] IN
        (/\ recs[p] # NoRec /\ recs[p].status = "connected"
         /\ r # 0 /\ ~rt[r].isStopped /\ rt[r].stopMu = 0) =>
            /\ rt[r].client # 0
            /\ clients[rt[r].client].state = "open"
            /\ clients[rt[r].client].listener = "open"

\* the Start task of Runtime r has returned although done is open: it
\* returned at line 289, on "unable to authenticate"
AuthExited(r) ==
    /\ rt[r].used
    /\ tasks[<<r, 1>>].pc = "exit"
    /\ ~rt[r].done

\* C16: once the Start task of a Runtime has returned on an authentication
\* failure, no task of that Runtime begins another connect attempt.
C16_NoConnectAfterAuthFailure ==
    [][\A t \in TaskIds :
          (AuthExited(t[1]) /\ tasks[t].used /\ tasks[t].pc # "e_dial") =>
              tasks'[t].pc # "e_dial"]_vars

\* Runtime r is up and at rest: it was never stopped, its stored client is
\* open, its Start task is blocked in Accept on an open listener, and every
\* other task of it is a Supervisor between ticks or inside a tick on the
\* stored client.  From here, while probes and keepalives succeed and nobody
\* calls Stop, no task of r writes the row again.
AtRest(r) ==
    /\ rt[r].used /\ ~rt[r].done /\ ~rt[r].isStopped /\ rt[r].stopMu = 0
    /\ \A c \in StopperIds : stoppers[c].pc = "idle"
    /\ rt[r].client # 0 /\ clients[rt[r].client].state = "open"
    /\ tasks[<<r, 1>>].pc = "e_accept"
    /\ clients[tasks[<<r, 1>>].cl].listener = "open"
    /\ \A t \in TaskIds :
          (tasks[t].used /\ t[1] = r /\ t[2] # 1) =>
             \/ tasks[t].pc = "m_select"
             \/ tasks[t].pc \in {"m_probe", "m_keepalive"} /\ tasks[t].snap = rt[r].client

\* C17: a Runtime that was never stopped, whose last failure was not an
\* authentication failure, and that is at rest has status = connected in its
\* row.
C17_NoStuckReconnection ==
    \A r \in RtIds :
        (AtRest(r) /\ rt[r].tun.lastError # "auth" /\ recs[rt[r].pair] # NoRec) =>
            recs[rt[r].pair].status = "connected"

\* C18: a Runtime has at most one connect procedure in its accept loop, and
\* every open client of it is either its stored client or the client a connect
\* attempt has dialed and not yet stored.
C18_OneClientOneAcceptLoop ==
    \A r \in RtIds :
        /\ Cardinality({t \in TaskIds : tasks[t].used /\ tasks[t].r = r /\ tasks[t].pc = "e_accept"}) <= 1
        /\ \A c \in ClientIds :
              (clients[c].state = "open" /\ clients[c].r = r) =>
                 \/ rt[r].client = c
                 \/ \E t \in TaskIds : /\ tasks[t].used /\ tasks[t].r = r /\ tasks[t].cl = c
                                       /\ tasks[t].pc \in {"e_listen", "e_store"}

\* C19: at most one Supervisor task of a Runtime is alive at any moment.
C19_OneSupervisor ==
    \A r \in RtIds :
        Cardinality({t \in TaskIds : /\ tasks[t].used /\ tasks[t].r = r
                                     /\ tasks[t].kind = "monitor" /\ tasks[t].pc # "exit"}) <= 1

\* C20: while the store holds no hosts or no service ports, no step of
\* RestoreAllTunnels changes the registry, a Tunnel row, a Runtime or a task,
\* and it returns nil.
C20_RestoreEmptyIsNoop ==
    [][(RestoreStep /\ (LiveHosts = {} \/ LiveSps = {})) =>
          /\ registry' = registry /\ recs' = recs /\ rt' = rt /\ tasks' = tasks
          /\ hnd'.pc = "idle" => (hnd'.lastOp = "RestoreAllTunnels" /\ hnd'.code = 0)]_vars

\* RestoreAllTunnels has returned on a store with a host, no service port and
\* a row left by an earlier run, before any request.
C20_ReturnedOnNoServicePorts ==
    /\ hnd.pc = "idle" /\ hnd.lastOp = "RestoreAllTunnels" /\ ops = 0
    /\ LiveHosts # {} /\ LiveSps = {}
    /\ recs[<<1, 1>>] # NoRec

\* C21: a call of StartTunnel by RestoreAllTunnels finds the pair's row purged
\* and, when it registers a Runtime, leaves a row with status = starting; and
\* when RestoreAllTunnels returns on a store with hosts and service ports,
\* every pair of a host and a service port has a Runtime registered and a row.
C21_RestoreRegistersAll ==
    [][/\ (StartTunnelStep /\ hnd.pc = "restoreSp") =>
             /\ recs[StartKey] = NoRec
             /\ registry'[StartKey] # 0 => recs'[StartKey].status = "starting"
       /\ (ResponseStep /\ hnd.op = "RestoreAllTunnels" /\ hnd'.code = 0
             /\ LiveHosts # {} /\ LiveSps # {}) =>
             \A h \in LiveHosts, s \in LiveSps :
                 registry'[<<h, s>>] # 0 /\ recs'[<<h, s>>] # NoRec]_vars

\* C22: while RestoreAllTunnels runs, StopAllTunnels takes no step, and every
\* step that makes a Manager call, changes the registry or moves a Stop is
\* Restore's own StartTunnel.
C22_RestoreSerialized ==
    [][hnd.op = "RestoreAllTunnels" =>
          /\ ~StopAllStep
          /\ (mgr' # mgr \/ registry' # registry \/ stoppers' # stoppers) =>
                (StartTunnelStep /\ hnd.pc = "restoreSp")]_vars

\* RestoreAllTunnels has read the tables and purged the host's rows and is
\* about to call StartTunnel.
C22_RestoreInLoop ==
    hnd.op = "RestoreAllTunnels" /\ hnd.pc = "restoreSp" /\ hnd.list # <<>>

\* C23: when StopAllTunnels returns, no pair of a host and a service port of
\* the store has a Runtime registered or a Tunnel row.
C23_StopAllLeavesNothing ==
    [][StopAllTunnels_Return =>
          \A h \in LiveHosts, s \in LiveSps :
              registry'[<<h, s>>] = 0 /\ recs'[<<h, s>>] = NoRec]_vars

\* C24: a CreateServicePort whose (serviceIP, servicePort) is that of a stored
\* service port answers 500 at once and changes neither the service ports,
\* the registry, the Tunnel rows, the Runtimes nor the tasks.
C24_DuplicateServicePortRejected ==
    [][\A ip \in ServiceIPs, port \in ServicePorts, lp \in LocalPorts :
          (/\ CreateServicePort(ip, port, lp)
           /\ \E i \in LiveSps : sps[i].serviceIP = ip /\ sps[i].servicePort = port) =>
              /\ hnd'.pc = "idle" /\ hnd'.lastOp = "CreateServicePort" /\ hnd'.code = 500
              /\ sps' = sps /\ registry' = registry /\ recs' = recs
              /\ rt' = rt /\ tasks' = tasks]_vars

\* A duplicate CreateServicePort was answered with 500 while a Runtime was
\* registered.
C24_Rejected ==
    /\ hnd.pc = "idle" /\ hnd.lastOp = "CreateServicePort" /\ hnd.code = 500 /\ hnd.lastId = 0
    /\ \E p \in Pairs : registry[p] # 0 /\ recs[p] # NoRec

\* Stop has returned for Runtime r while its Start task is blocked in Accept
\* on a listener that is open on the stored, open client, and every Supervisor
\* of r has exited, is between ticks or is inside a tick on that client: only
\* a failure of the connection can end that Accept.
Stranded(r) ==
    /\ rt[r].used /\ rt[r].isStopped /\ rt[r].done /\ rt[r].stopMu = 0
    /\ tasks[<<r, 1>>].used /\ tasks[<<r, 1>>].pc = "e_accept"
    /\ rt[r].client = tasks[<<r, 1>>].cl
    /\ clients[tasks[<<r, 1>>].cl].state = "open"
    /\ clients[tasks[<<r, 1>>].cl].listener = "open"
    /\ \A t \in TaskIds :
          (tasks[t].used /\ t[1] = r /\ t[2] # 1) =>
             \/ tasks[t].pc \in {"m_select", "exit"}
             \/ tasks[t].pc \in {"m_probe", "m_keepalive"} /\ tasks[t].snap = rt[r].client

\* C25: once Stop has returned, the Start task is not left blocked in an Accept
\* that nothing will end.
C25_StartReturnsAfterStop ==
    \A r \in RtIds : ~Stranded(r)

\* Stop has returned for the Runtime of Supervisor t while t, inside the
\* reconnection it triggered, is blocked in Accept on an open listener of an
\* open client, and no other task of the Runtime is about to close a client.
SupervisorStranded(t) ==
    LET r == tasks[t].r IN
    /\ tasks[t].used /\ tasks[t].kind = "monitor" /\ tasks[t].pc = "e_accept"
    /\ rt[r].isStopped /\ rt[r].done /\ rt[r].stopMu = 0
    /\ clients[tasks[t].cl].state = "open"
    /\ clients[tasks[t].cl].listener = "open"
    /\ \A u \in TaskIds :
          (tasks[u].used /\ tasks[u].r = r /\ u # t) =>
             tasks[u].pc \in {"exit", "s_select", "e_accept", "m_select", "m_probe",
                              "m_keepalive", "r_check"}

\* C26: once done has fired and Stop has returned, no Supervisor is left
\* blocked in the Accept of its own reconnection.
C26_SupervisorsExit ==
    \A t \in TaskIds : ~SupervisorStranded(t)

\* C27: while nobody has called Stop, the Start task comes back to the head of
\* its loop, to make its next attempt, only from the save that follows its
\* sleep and its status = reconnecting, RetryCount++.
C27_SleepBetweenAttempts ==
    [][\A r \in RtIds :
          LET t == <<r, 1>> IN
          (/\ tasks[t].used /\ tasks[t].pc # "s_select" /\ tasks'[t].pc = "s_select"
           /\ ~rt[r].done /\ ~rt[r].isStopped
           /\ \A c \in StopperIds : stoppers[c].pc = "idle") =>
              /\ tasks[t].pc \in {"sv_check", "sv_write"}
              /\ tasks[t].ret = "s_select"]_vars

\* C28: when client.Listen fails in a connect attempt, the client the attempt
\* dialed is closed, the stored client is unchanged, no task is spawned, and
\* the Runtime's tunnel gets status = error with the failure as lastError.
C28_ListenFailureClosesClient ==
    [][\A t \in TaskIds :
          (tasks[t].used /\ tasks[t].pc = "e_listen" /\ tasks'[t].pc = "sv_check") =>
              LET r == tasks[t].r IN
              /\ clients'[tasks[t].cl].state = "closed"
              /\ rt'[r].client = rt[r].client
              /\ \A u \in TaskIds : tasks'[u].used = tasks[u].used
              /\ rt'[r].tun.status = "error" /\ rt'[r].tun.lastError = "listen"]_vars

\* C29: a Tunnel row with status = connected has retryCount = 0 and an empty
\* lastError.
C29_ConnectedRowIsClean ==
    \A p \in Pairs :
        (recs[p] # NoRec /\ recs[p].status = "connected") =>
            recs[p].retryCount = 0 /\ recs[p].lastError = ""

\* the three endpoint strings StartTunnel builds for the call in progress
StartTunnelAddrs ==
    LET tunnel == TunnelOf(StartHost, StartSp) IN
    {tunnel.local, tunnel.server, tunnel.remote}

\* C30: when one of the three endpoint strings (local, server, remote) does
\* not resolve as a TCP address, StartTunnel returns an error, the registry
\* and the Tunnel records are unchanged, and no Runtime or task is created.
C30_ResolveFailureChangesNothing ==
    [][(StartTunnelStep /\ \E a \in StartTunnelAddrs : ~ResolveTCPAddr(a)) =>
          /\ mgr'.op = "StartTunnel" /\ mgr'.pair = StartKey
          /\ mgr'.res \in {"resolve", "exists"}
          /\ registry' = registry
          /\ recs' = recs
          /\ rt' = rt
          /\ tasks' = tasks]_vars

\* StartTunnel has returned the resolve error for a stored pair whose server
\* or remote string does not resolve; the pair has no Runtime and no row
C30_ResolveErrorReturned ==
    /\ mgr.op = "StartTunnel" /\ mgr.res = "resolve"
    /\ mgr.pair[1] \in LiveHosts /\ mgr.pair[2] \in LiveSps
    /\ LET tunnel == TunnelOf(hosts[mgr.pair[1]], sps[mgr.pair[2]]) IN
          ~ResolveTCPAddr(tunnel.server) \/ ~ResolveTCPAddr(tunnel.remote)
    /\ registry[mgr.pair] = 0
    /\ recs[mgr.pair] = NoRec


\* C31: for every accepted connection, a failed dial of the remote service
\* leads to the accepted connection being closed, and the return of either
\* copy leads to both connections being closed and both copy goroutines
\* having delivered their result and ended.
C31_ForwardReleasesBoth ==
    \A f \in FwdIds :
        /\ (fwd[f].pc = "closeLocal" /\ fwd[f].remoteConn = "none")
              ~> (fwd[f].localConn = "closed")
        /\ (\E i \in 1..2 : fwd[f].copy[i] \in {"send", "done"})
              ~> (/\ fwd[f].localConn = "closed" /\ fwd[f].remoteConn = "closed"
                  /\ fwd[f].copy = <<"done", "done">>)

\* a forward pair has returned after a copy ended: both connections are
\* closed, both copy goroutines are over and the second result sits in errc
C31_PairReleased ==
    \E f \in FwdIds :
        /\ fwd[f].pc = "done" /\ fwd[f].copy = <<"done", "done">>
        /\ fwd[f].localConn = "closed" /\ fwd[f].remoteConn = "closed"
        /\ fwd[f].errc = 1

\* C32: a StartTunnel call that returns an error, whatever the reason (the
\* key exists, an endpoint does not resolve, the upsert of the row fails),
\* leaves the registry as it was before the call.
C32_FailedStartLeavesRegistry ==
    [][(StartTunnelStep /\ mgr'.op = "StartTunnel" /\ mgr'.res # "ok") =>
          registry' = registry]_vars

\* C33: while no StopTunnel call is in progress, no Runtime of the registry is
\* stopped: its done channel is open and isStopped is false.
C33_RegisteredIsRunning ==
    (hnd.pc # "stopWait" /\ sig.pc # "stopWait") =>
        \A p \in Pairs :
            registry[p] # 0 => ~rt[registry[p]].done /\ ~rt[registry[p]].isStopped

\* C37: when a StartTunnel of CreateServicePort's fan-out fails, the request
\* ends with the service port not stored and with no Runtime and no Tunnel row
\* for the new service port.
C37_FailedCreateLeavesNothing ==
    [][(StartTunnelStep /\ hnd.op = "CreateServicePort" /\ mgr'.res # "ok") =>
          /\ hnd'.pc = "idle" /\ hnd'.code = 500
          /\ sps'[hnd.sp.id].id = 0
          /\ \A h \in HostIds :
                registry'[<<h, hnd.sp.id>>] = 0 /\ recs'[<<h, hnd.sp.id>>] = NoRec]_vars

\* C34: StopAllTunnels releases the registry lock m.mu exactly once on every
\* path, the failed reads included: it never executes a second Unlock, never
\* unlocks a lock it does not hold (a fatal error when nobody holds it), and
\* never reaches its loops after more than one Unlock.
C34_RegistryLockReleasedOnce ==
    /\ sig.unlocks <= 1
    /\ sig.pc # "fatal"

\* C36: an UpdateServicePort whose Save fails because another service port
\* already has the requested (serviceIP, servicePort) leaves the tunnels of its
\* service port as they were before the request: from the request to the 500
\* no step unregisters a Runtime of a (host, sp) and no step removes its Tunnel
\* record.
C36_FailedSaveKeepsTunnels ==
    [][(/\ hnd.op = "UpdateServicePort"
        /\ \E i \in LiveSps \ {hnd.sp.id} :
              /\ sps[i].serviceIP = hnd.sp.serviceIP
              /\ sps[i].servicePort = hnd.sp.servicePort)
          => \A h \in HostIds :
                /\ registry'[<<h, hnd.sp.id>>] = registry[<<h, hnd.sp.id>>]
                /\ recs[<<h, hnd.sp.id>>] # NoRec => recs'[<<h, hnd.sp.id>>] # NoRec]_vars

\* C38: in every quiescent state no Runtime is registered for a host whose
\* enabled flag is false.
C38_NoRuntimeForDisabledHost ==
    Quiescent =>
        \A h \in LiveHosts :
            ~hosts[h].enabled => \A s \in SpIds : registry[<<h, s>>] = 0

\* C39: an UpdateHost request that changes none of ip, port, user, password
\* and enabled leaves the registry and the Tunnel records unchanged, for an
\* enabled and for a disabled host: no step of the handler between the request
\* and its response changes the registry, and no step of the handler changes a
\* record.  needTunnelRestart is read back from the two loop conditions: it is
\* the start condition for an enabled host and the stop condition for a
\* disabled one.
C39_NoChangeUpdateIsNoop ==
    [][(/\ hnd.op = "UpdateHost" /\ hnd.pc # "idle"
        /\ ~(IF hnd.host.enabled THEN hnd.restart ELSE hnd.stop)
        /\ hnd.enabled = "nil" \/ ((hnd.enabled = "true") <=> hnd.host.enabled))
          => /\ registry' = registry
             /\ hnd' # hnd => recs' = recs]_vars

\* C35: no deadlock among the handlers (Handler.rwLock), the Manager
\* operations (Manager.mu) and the Start, Supervisor, reconnect and Stop tasks
\* (stopMu, clientMu).  The locks are taken in the order handler lock, registry
\* lock, stop lock, client lock: a Stop holds stopMu only inside a StopTunnel
\* that holds the registry lock, and the two holders of the registry lock
\* exclude each other.  Every lock that is held gets released: the holder of a
\* stop lock can take its next step, the holder of the registry lock can take
\* its next step, and a handler or StopAllTunnels that cannot step waits for
\* the registry lock whose holder can (a behaviour also ends where a
\* StartTunnel would need more than MaxRuntimes Runtimes).
C35_NoDeadlock ==
    /\ \A r \in RtIds :
          /\ rt[r].stopMu = 1 => hnd.pc = "stopWait"
          /\ rt[r].stopMu = 2 => sig.pc = "stopWait"
          /\ rt[r].stopMu # 0 => ENABLED StopStep(rt[r].stopMu)
    /\ ~(hnd.pc = "stopWait" /\ sig.pc = "stopWait")
    /\ hnd.pc = "stopWait" => ENABLED (StopStep(1) \/ StopTunnel_Return)
    /\ sig.pc = "stopWait" => ENABLED (StopStep(2) \/ StopAllTunnels_StopReturn)
    /\ hnd.pc \notin {"idle", "stopWait"} =>
          \/ ENABLED (HandlerStep \/ RestoreStep)
          \/ sig.pc = "stopWait"
          \/ FreeRtIds = {}
    /\ sig.pc \notin {"wait", "returned", "stopWait"} =>
          \/ ENABLED StopAllStep
          \/ hnd.pc = "stopWait"

\* a Supervisor's reconnect and a Start task wait for the stop lock of a
\* Runtime while Stop holds it inside a handler's StopTunnel
C35_TasksWaitForStop ==
    \E r \in RtIds :
        /\ rt[r].stopMu = 1 /\ hnd.pc = "stopWait"
        /\ \E t \in TaskIds :
              tasks[t].used /\ tasks[t].r = r /\ tasks[t].pc = "r_check"
        /\ \E t \in TaskIds :
              tasks[t].used /\ tasks[t].r = r /\ tasks[t].pc \in {"s_check", "sv_check"}

====
